---- MODULE Spec2Model ----
(***************************************************************************)
(* Queez-Backend live multiplayer engine: the Redis session hash, the      *)
(* per-participant cursor keys, and the asyncio handlers of                *)
(* app/api/routes/websocket.py and app/api/routes/live_multiplayer.py      *)
(* that read and write them.                                               *)
(*                                                                         *)
(* Every handler is a coroutine.  It runs without interruption between two *)
(* awaits and may be interleaved with any other coroutine at an await.     *)
(* Each action below is one such atomic piece: it holds exactly one        *)
(* Redis command on mutable data, together with the local computation      *)
(* that follows it up to the next Redis command on mutable data.  Reads of *)
(* host_id, quiz_id and of the quiz document (never written after          *)
(* create_session) and outbound sends are folded into the neighbouring     *)
(* piece: no other coroutine can observe or change them.                   *)
(***************************************************************************)
EXTENDS Integers, Sequences, FiniteSets, TLC

\* ------------------------------------------------------------------ bounds
\* Number of handler invocations (channel messages plus HTTP calls) explored.
MaxOps == 3
\* Largest client timestamp fed to the scoring function in ScoreSpec.
MaxTimestamp == 40
\* Largest magnitude of a negative client timestamp in ScoreSpec.
MaxNegTimestamp == 10

\* -------------------------------------------------------- program constants
QUESTION_TIME_SECONDS == 30
base_points == 1000
bonus_scale == 500
default_per_question_time_limit == 30
MAX_PARTICIPANTS_PER_SESSION == 50

\* ------------------------------------------------------------- environment
Users == {"host", "alice", "bob", "carol"}
\* host_id of the one session under study (create_session stores it once).
host_id == "host"
\* Client tasks: a task is one channel (or one HTTP client) of a user; its
\* requests are handled strictly one after the other, tasks run concurrently.
Tasks == {"h1", "a1", "a2", "b1"}
HostTasks == {"h1"}
ParticipantTasks == {"a1", "a2", "b1"}
TaskUser(t) == CASE t = "h1" -> "host"
                 [] t = "a1" -> "alice"
                 [] t = "a2" -> "alice"
                 [] t = "b1" -> "bob"

\* The quiz document (QuizStore, read-only).
Quiz == << [type |-> "singleMcq", correctAnswerIndex |-> 0, questionText |-> "q0",
             correctAnswerIndices |-> {}, correctMatches |-> {}],
           [type |-> "singleMcq", correctAnswerIndex |-> 1, questionText |-> "q1",
             correctAnswerIndices |-> {}, correctMatches |-> {}] >>
total_questions == Len(Quiz)

\* Inputs of the concurrent specification.
Answers == {0, 1}
Timestamps == {30}
\* Python None for an absent integer (a missing key, field or payload).
None == -1
StartPayloads == {None, 60}

\* The session codes that random.choices can produce in CreateSpec.
Codes == {"AAAAAA", "BBBBBB"}

\* The channels (WebSocket objects) of ConnSpec and the user of each: alice
\* opens two.
Channels == {"alice_1", "alice_2", "bob_1"}
ChannelUser(c) == CASE c = "alice_1" -> "alice"
                    [] c = "alice_2" -> "alice"
                    [] c = "bob_1" -> "bob"
\* No entry in a dict keyed by user.
NoChannel == "none"
\* The task that handles the messages arriving on a channel, one at a time
\* (websocket_endpoint's receive loop).
ChannelTask(c) == CASE c = "alice_1" -> "a1"
                    [] c = "alice_2" -> "a2"
                    [] c = "bob_1" -> "b1"
TaskChannel(t) == CHOOSE c \in Channels : ChannelTask(c) = t

VARIABLES
    status,                   \* hash field status
    participants,             \* hash field participants (JSON object, insertion ordered)
    current_question_index,   \* hash field current_question_index
    per_question_time_limit,  \* hash field per_question_time_limit, None until start_quiz stores it
    question_start_time,      \* hash field question_start_time: TRUE once stored
    cursor,                   \* keys participant:<code>:<user>:question_index
    pc,                       \* position of each task's running handler
    loc,                      \* locals of each task's running handler
    sent,                     \* outbound messages of each task's current or last handler
    ops,                      \* handlers begun so far
    score_in,                 \* ScoreSpec: the inputs of one scoring
    score_out,                \* ScoreSpec: its result
    active_connections,       \* ConnectionManager.active_connections[session_code]: a list
    user_connections,         \* ConnectionManager.user_connections: user -> channel
    connection_roles,         \* ConnectionManager.connection_roles[session_code]: its keys
    channel,                  \* each channel's condition: new, open, stalled, broken, closed
    delivered,                \* the messages each channel's client received, in order
    sessions,                 \* CreateSpec: for each code, << >> or << the session hash >>
    frames,                   \* DispatchSpec: per connection, the text frames received and
                              \* not yet read by the loop, and the frames the loop has read
    quiz                      \* the quiz store's answer to find_one: << >> or << questions >>

manager == << active_connections, user_connections, connection_roles, channel, delivered >>

vars == << status, participants, current_question_index, per_question_time_limit,
           question_start_time, cursor, pc, loc, sent, ops, score_in, score_out, manager,
           sessions, frames, quiz >>

store == << status, participants, current_question_index, per_question_time_limit,
            question_start_time, cursor >>

\* ----------------------------------------------------- the participants dict
Ids(ps) == { ps[i].user_id : i \in 1..Len(ps) }
IndexOf(ps, u) == CHOOSE i \in 1..Len(ps) : ps[i].user_id = u
Get(ps, u) == ps[IndexOf(ps, u)]

RECURSIVE SumPoints(_)
SumPoints(answers) ==
    IF answers = << >> THEN 0
    ELSE answers[1].points_earned + SumPoints(Tail(answers))

MaxOf(S) == CHOOSE m \in S : \A x \in S : x <= m
Min(a, b) == IF a < b THEN a ELSE b

NoLoc == [via |-> "none", is_reconnecting |-> FALSE, participants |-> << >>,
          index |-> 0, answer |-> 0, timestamp |-> 0, limit |-> 0,
          result |-> [none |-> TRUE], todo |-> << >>, entries |-> << >>,
          connection |-> NoChannel, message |-> 0, registered |-> {},
          session_code |-> ""]

Msg(kind, type, payload) == [kind |-> kind, type |-> type, payload |-> payload]
Personal(type, payload) == Msg("personal", type, payload)
Broadcast(type, payload) == Msg("broadcast", type, payload)
\* A line of the server log (logger.error of websocket_endpoint, line 75):
\* nothing is sent to any client.
Logged(level, text) == Msg("log", level, text)
\* An HTTP response: the route answered, the status code, the body.
Http(route, code, payload) == [kind |-> "http", type |-> route, code |-> code, payload |-> payload]


Score_unchanged == UNCHANGED << score_in, score_out, manager, sessions, frames, quiz >>

\* ConnectionManager.__init__, lines 9-15: nothing registered; no channel
\* opened yet.
manager_init ==
    /\ active_connections = << >>
    /\ user_connections = [u \in Users |-> NoChannel]
    /\ connection_roles = {}
    /\ channel = [c \in Channels |-> "new"]
    /\ delivered = [c \in Channels |-> << >>]

\* No key session:<code> exists for any code of CreateSpec.
sessions_init == sessions = [code \in Codes |-> << >>]

\* No text frame has arrived on any connection.
frames_init == frames = [t \in Tasks |-> [inbox |-> << >>, handled |-> << >>]]

\* The quiz store holds the document the session was created with.
quiz_init == quiz = << Quiz >>

\* quiz["questions"] of the document read now; no questions when find_one
\* returns None.
quiz_questions == IF quiz = << >> THEN << >> ELSE quiz[1]

\* A task picks up its next request only when its previous handler returned.
Begin(t) == pc[t] = "idle" /\ ops < MaxOps /\ ops' = ops + 1

Goto(t, label, locals) ==
    /\ pc' = [pc EXCEPT ![t] = label]
    /\ loc' = [loc EXCEPT ![t] = locals]

Return(t) == Goto(t, "idle", NoLoc)

\* session_state / session_update payloads: status and the participants list.
SessionPayload(st, ps) == [status |-> st, participants |-> ps, participant_count |-> Len(ps)]

\* ------------------------------------------------- SessionManager.add_participant
\* Lines 92-106: the dict after "add or update participant".
add_participant_update(ps, user_id) ==
    IF user_id \in Ids(ps)
    THEN [ps EXCEPT ![IndexOf(ps, user_id)].connected = TRUE]
    ELSE Append(ps, [user_id |-> user_id, connected |-> TRUE, score |-> 0, answers |-> << >>])

\* Mutant: add_participant without its host check.
add_participant_is_host_unchecked(user_id) == FALSE

\* Line 81: the host is refused.
add_participant_is_host(user_id) == user_id = host_id

\* Lines 85-90: hget participants; the updated dict is computed locally.
add_participant_hget(t) ==
    /\ pc[t] = "add_participant_hget"
    /\ Goto(t, "add_participant_hset",
            [loc[t] EXCEPT !.participants = add_participant_update(participants, TaskUser(t))])
    /\ UNCHANGED << store, sent, ops >>
    /\ Score_unchanged

\* Line 108: hset participants with the locally updated dict; returns True.
add_participant_hset(t) ==
    /\ pc[t] = "add_participant_hset"
    /\ participants' = loc[t].participants
    /\ Goto(t, IF loc[t].via = "ws" THEN "handle_join_after" ELSE "join_session_after",
            [loc[t] EXCEPT !.participants = << >>])
    /\ UNCHANGED << status, current_question_index, per_question_time_limit,
                    question_start_time, cursor, sent, ops >>
    /\ Score_unchanged

\* ------------------------------------------------------ SessionManager.is_host
\* Mutant: every caller passes for the host.
is_host_always(user_id) == TRUE

\* Lines 145-148: hget host_id and compare.
is_host(user_id) == user_id = host_id

\* ------------------------------------------------------ websocket.handle_join
\* Lines 129-142: a new user is refused unless the snapshot says waiting.
join_allowed(snapshot_status, is_reconnecting) ==
    snapshot_status = "waiting" \/ is_reconnecting

\* Lines 86-145: get_session, the host branch, the status check.
handle_join(t) ==
    /\ Begin(t)
    /\ LET user_id == TaskUser(t)
           is_reconnecting == user_id \in Ids(participants)
       IN  IF is_host(user_id)
           THEN /\ sent' = [sent EXCEPT ![t] =
                        << Personal("session_state", SessionPayload(status, participants)) >>]
                /\ Return(t)
           ELSE IF ~join_allowed(status, is_reconnecting)
           THEN /\ sent' = [sent EXCEPT ![t] =
                        << Personal("error", "Session is already active") >>]
                /\ Return(t)
           ELSE /\ sent' = [sent EXCEPT ![t] = << >>]
                /\ IF add_participant_is_host(user_id)
                   THEN Return(t)
                   ELSE Goto(t, "add_participant_hget",
                             [NoLoc EXCEPT !.via = "ws", !.is_reconnecting = is_reconnecting])
    /\ UNCHANGED store
    /\ Score_unchanged

\* Lines 147-183: get_session again, session_update broadcast, session_state
\* to the sender, in that order.
handle_join_after(t) ==
    /\ pc[t] = "handle_join_after"
    /\ sent' = [sent EXCEPT ![t] =
            << Broadcast("session_update", SessionPayload(status, participants)),
               Personal("session_state", SessionPayload(status, participants)) >>]
    /\ IF loc[t].is_reconnecting /\ status = "active"
       THEN Goto(t, "handle_join_question", loc[t])
       ELSE Return(t)
    /\ UNCHANGED << store, ops >>
    /\ Score_unchanged

\* GameController.get_current_question, lines 16-53: the question at the
\* session's current_question_index, or None.
get_current_question(index) ==
    IF index >= Len(quiz_questions) THEN << >>
    ELSE IF quiz_questions[index + 1].questionText = "" THEN << >>
    ELSE << [index |-> index, total |-> Len(quiz_questions)] >>

\* Lines 183-191: the current question for a user reconnecting mid-quiz.
handle_join_question(t) ==
    /\ pc[t] = "handle_join_question"
    /\ LET question_data == get_current_question(current_question_index)
       IN  sent' = [sent EXCEPT ![t] =
                IF question_data = << >> THEN @
                ELSE Append(@, Personal("question", question_data[1]))]
    /\ Return(t)
    /\ UNCHANGED << store, ops >>
    /\ Score_unchanged

\* ------------------------------------------- live_multiplayer.join_session
\* Lines 128-149: get_session, the status check, and add_participant's
\* refusal of the host (answered 500).
join_session(t) ==
    /\ Begin(t)
    /\ LET user_id == TaskUser(t)
       IN  IF status # "waiting" /\ user_id \notin Ids(participants)
           THEN /\ sent' = [sent EXCEPT ![t] = << Http("join", 400, "Quiz has already started") >>]
                /\ Return(t)
           ELSE IF add_participant_is_host(user_id)
           THEN /\ sent' = [sent EXCEPT ![t] = << Http("join", 500, "Failed to join session") >>]
                /\ Return(t)
           ELSE /\ sent' = [sent EXCEPT ![t] = << >>]
                /\ Goto(t, "add_participant_hget", [NoLoc EXCEPT !.via = "http"])
    /\ UNCHANGED store
    /\ Score_unchanged

\* Lines 151-161: get_session again for the count in the 200 response.
join_session_after(t) ==
    /\ pc[t] = "join_session_after"
    /\ sent' = [sent EXCEPT ![t] = << Http("join", 200, SessionPayload(status, participants)) >>]
    /\ Return(t)
    /\ UNCHANGED << store, ops >>
    /\ Score_unchanged

\* ----------------------------------------------- GameController.submit_answer
\* Lines 182-187: int(max(0, (1 - elapsed / 30) * 500)) is evaluated in IEEE-754
\* doubles.  For integer elapsed values in -12..30 the double result equals the
\* exact floor except at 24 and 27, where (1 - elapsed/30) * 500 evaluates to
\* 99.99999999999997 and 49.99999999999999 and int() truncates to 99 and 49.
float_short == {24, 27}

\* Lines 183-187: the time bonus; "if timestamp:" is false for timestamp 0
\* and true for a negative one; elapsed <= 30, so max(0, ...) is its argument.
time_bonus(timestamp) ==
    IF timestamp = 0 THEN 0
    ELSE LET elapsed == Min(timestamp, QUESTION_TIME_SECONDS)
             exact == ((QUESTION_TIME_SECONDS - elapsed) * bonus_scale) \div QUESTION_TIME_SECONDS
         IN  IF elapsed \in float_short THEN exact - 1 ELSE exact

\* Lines 177-188: points of one answer.
calculate_points(is_correct, timestamp) ==
    IF is_correct THEN base_points + time_bonus(timestamp) ELSE 0

\* Mutant: a question of an unknown type is marked wrong instead of refused.
validate_answer_unknown_is_wrong(question, answer) ==
    IF question.type \in {"singleMcq", "trueFalse"}
    THEN IF question.correctAnswerIndex = None
         THEN [error |-> "Invalid question configuration"]
         ELSE [is_correct |-> (answer = question.correctAnswerIndex)]
    ELSE [is_correct |-> FALSE]

\* Lines 133-175: validation by question type; an error string or is_correct.
validate_answer(question, answer) ==
    IF question.type \in {"singleMcq", "trueFalse"}
    THEN IF question.correctAnswerIndex = None
         THEN [error |-> "Invalid question configuration"]
         ELSE [is_correct |-> (answer = question.correctAnswerIndex)]
    ELSE IF question.type = "multiMcq"
    THEN IF question.correctAnswerIndices = {}
         THEN [error |-> "Invalid question configuration"]
         ELSE [is_correct |-> ({answer} = question.correctAnswerIndices)]
    ELSE IF question.type = "dragAndDrop"
    THEN IF question.correctMatches = {}
         THEN [error |-> "Invalid question configuration"]
         ELSE [is_correct |-> FALSE]
    ELSE [error |-> "Unknown question type"]

\* Mutant: the duplicate check compares the stored answer, not the stored
\* question_index, with the index.
already_answered_by_answer(participant, current_index) ==
    \E k \in 1..Len(participant.answers) :
        participant.answers[k].answer = current_index

\* Mutant: no duplicate check.
already_answered_never(participant, current_index) == FALSE

\* Lines 195-199: the participant already holds a record for this index.
already_answered(participant, current_index) ==
    \E k \in 1..Len(participant.answers) :
        participant.answers[k].question_index = current_index

\* Mutant: the record is appended and the score left as it was.
record_answer_score_kept(participant, current_index, answer, timestamp, is_correct, points) ==
    [participant EXCEPT
        !.answers = Append(@, [question_index |-> current_index, answer |-> answer,
                               timestamp |-> timestamp, is_correct |-> is_correct,
                               points_earned |-> points])]

\* Lines 201-209: the record is appended and the score raised.
record_answer(participant, current_index, answer, timestamp, is_correct, points) ==
    [participant EXCEPT
        !.answers = Append(@, [question_index |-> current_index, answer |-> answer,
                               timestamp |-> timestamp, is_correct |-> is_correct,
                               points_earned |-> points]),
        !.score = @ + points]

\* GameController.get_participant_question_index, lines 312-327: the index
\* derived from the stored answers when no cursor key exists.
derived_question_index(ps, user_id) ==
    IF user_id \in Ids(ps) /\ Get(ps, user_id).answers # << >>
    THEN LET answers == Get(ps, user_id).answers
         IN  MaxOf({ answers[k].question_index : k \in 1..Len(answers) })
    ELSE 0

\* websocket.handle_submit_answer lines 266-284 and get_participant_question_index
\* lines 301-310: redis.get of the cursor key.
handle_submit_answer(t, answer, timestamp) ==
    /\ Begin(t)
    /\ sent' = [sent EXCEPT ![t] = << >>]
    /\ IF cursor[TaskUser(t)] # None
       THEN Goto(t, "submit_answer_hmget",
                 [NoLoc EXCEPT !.index = cursor[TaskUser(t)], !.answer = answer,
                               !.timestamp = timestamp])
       ELSE Goto(t, "submit_answer_derive",
                 [NoLoc EXCEPT !.answer = answer, !.timestamp = timestamp])
    /\ UNCHANGED store
    /\ Score_unchanged

\* get_participant_question_index lines 312-327: hget participants.
submit_answer_derive(t) ==
    /\ pc[t] = "submit_answer_derive"
    /\ Goto(t, "submit_answer_hmget",
            [loc[t] EXCEPT !.index = derived_question_index(participants, TaskUser(t))])
    /\ UNCHANGED << store, sent, ops >>
    /\ Score_unchanged

\* The dict returned on success, lines 225-231.
answer_result(question, is_correct, points, participant) ==
    [is_correct |-> is_correct, points |-> points,
     correct_answer |-> IF question.type = "multiMcq" THEN question.correctAnswerIndices
                        ELSE IF question.type = "dragAndDrop" THEN question.correctMatches
                        ELSE question.correctAnswerIndex,
     new_total_score |-> participant.score, question_type |-> question.type]

\* submit_answer lines 112-234 on the snapshot read by hmget at line 112: the
\* returned dict, and the participants dict to store when one is stored.
submit_answer_outcome(ps, user_id, current_index, answer, timestamp) ==
    IF quiz = << >>
    THEN [result |-> [error |-> "Quiz not found"], stored |-> FALSE, write |-> << >>]
    ELSE IF current_index >= Len(quiz_questions)
    THEN [result |-> [error |-> "Invalid question index"], stored |-> FALSE, write |-> << >>]
    ELSE LET question == quiz_questions[current_index + 1]
             v == validate_answer(question, answer)
         IN  IF "error" \in DOMAIN v
             THEN [result |-> v, stored |-> FALSE, write |-> << >>]
             ELSE IF user_id \notin Ids(ps)
             THEN [result |-> [error |-> "Participant not found"], stored |-> FALSE, write |-> << >>]
             ELSE IF already_answered(Get(ps, user_id), current_index)
             THEN [result |-> [error |-> "Already answered"], stored |-> FALSE, write |-> << >>]
             ELSE LET points == calculate_points(v.is_correct, timestamp)
                      p == record_answer(Get(ps, user_id), current_index, answer,
                                         timestamp, v.is_correct, points)
                  IN  [result |-> answer_result(question, v.is_correct, points, p),
                       stored |-> TRUE, write |-> [ps EXCEPT ![IndexOf(ps, user_id)] = p]]

\* Line 112: hmget quiz_id, participants; everything up to the hset of line 212
\* is local.  An error is returned at once and sent as answer_result
\* (handle_submit_answer lines 291-294).
submit_answer_hmget(t) ==
    /\ pc[t] = "submit_answer_hmget"
    /\ LET out == submit_answer_outcome(participants, TaskUser(t), loc[t].index,
                                        loc[t].answer, loc[t].timestamp)
       IN  IF ~out.stored
           THEN /\ sent' = [sent EXCEPT ![t] = << Personal("answer_result", out.result) >>]
                /\ Goto(t, "get_leaderboard", NoLoc)
           ELSE /\ sent' = sent
                /\ Goto(t, "submit_answer_hset",
                        [loc[t] EXCEPT !.participants = out.write, !.result = out.result])
    /\ UNCHANGED << store, ops >>
    /\ Score_unchanged

\* Line 212: hset participants; then the result is sent as answer_result
\* (handle_submit_answer lines 291-294).
submit_answer_hset(t) ==
    /\ pc[t] = "submit_answer_hset"
    /\ participants' = loc[t].participants
    /\ sent' = [sent EXCEPT ![t] = << Personal("answer_result", loc[t].result) >>]
    /\ Goto(t, "get_leaderboard", NoLoc)
    /\ UNCHANGED << status, current_question_index, per_question_time_limit,
                    question_start_time, cursor, ops >>
    /\ Score_unchanged

\* ------------------------------------------ LeaderboardManager.get_leaderboard
\* Lines 33-47: one entry per participant, in the dict's order.
leaderboard_entries(ps, index) ==
    [k \in 1..Len(ps) |->
        [user_id |-> ps[k].user_id, score |-> ps[k].score,
         answered_count |-> Len(ps[k].answers), total_questions |-> total_questions,
         current_question |-> index + 1, is_connected |-> ps[k].connected]]

\* Mutant: the sort key is the score alone.
sort_key_le_score_only(a, b) == a.score >= b.score

\* Line 50: the sort key (-score, answered_count); a precedes-or-equals b.
sort_key_le(a, b) ==
    a.score > b.score \/ (a.score = b.score /\ a.answered_count <= b.answered_count)

\* list.sort is stable: x goes behind every entry whose key is not greater.
RECURSIVE sort_insert(_, _)
sort_insert(sorted, x) ==
    IF sorted = << >> THEN << x >>
    ELSE IF sort_key_le(sorted[1], x) THEN << sorted[1] >> \o sort_insert(Tail(sorted), x)
    ELSE << x >> \o sorted

RECURSIVE sort_stable(_)
sort_stable(entries) ==
    IF entries = << >> THEN << >>
    ELSE sort_insert(sort_stable(SubSeq(entries, 1, Len(entries) - 1)), entries[Len(entries)])

\* Lines 49-58: sorted, then numbered from 1.
leaderboard(ps, index) ==
    LET sorted == sort_stable(leaderboard_entries(ps, index))
    IN  [k \in 1..Len(sorted) |->
            [user_id |-> sorted[k].user_id, score |-> sorted[k].score,
             answered_count |-> sorted[k].answered_count,
             total_questions |-> sorted[k].total_questions,
             current_question |-> sorted[k].current_question,
             is_connected |-> sorted[k].is_connected, position |-> k]]

\* handle_submit_answer lines 297-304: get_leaderboard (one hmget), then the
\* leaderboard_update broadcast.
get_leaderboard(t) ==
    /\ pc[t] = "get_leaderboard"
    /\ sent' = [sent EXCEPT ![t] =
            Append(@, Broadcast("leaderboard_update",
                                leaderboard(participants, current_question_index)))]
    /\ Return(t)
    /\ UNCHANGED << store, ops >>
    /\ Score_unchanged

\* ---------------------------------- LeaderboardManager.calculate_final_results
\* Line 94: round(correct_count / len(answers) * 100, 1), in tenths of a
\* percent, rounded to the nearest tenth.
accuracy(correct_count, n) == (correct_count * 2000 + n) \div (2 * n)

\* Lines 85-100: the entry with the statistics of the participant's answers
\* in the participants dict read for this entry; the entry as it is when the
\* user is not in that dict.
final_results_entry(entry, ps) ==
    IF entry.user_id \notin Ids(ps) THEN entry
    ELSE LET answers == Get(ps, entry.user_id).answers
             correct_count == Cardinality({ k \in 1..Len(answers) : answers[k].is_correct })
         IN  [user_id |-> entry.user_id, score |-> entry.score,
              answered_count |-> entry.answered_count,
              total_questions |-> entry.total_questions,
              current_question |-> entry.current_question,
              is_connected |-> entry.is_connected, position |-> entry.position,
              accuracy |-> IF answers = << >> THEN 0 ELSE accuracy(correct_count, Len(answers)),
              correct_answers |-> correct_count,
              wrong_answers |-> Len(answers) - correct_count]

\* Line 76: get_leaderboard (one hmget) gives the entries to complete.
calculate_final_results_hmget(t) ==
    /\ pc[t] = "calculate_final_results"
    /\ LET entries == leaderboard(participants, current_question_index)
       IN  Goto(t, "calculate_final_results_loop",
                [loc[t] EXCEPT !.entries = entries,
                               !.todo = [k \in 1..Len(entries) |-> k]])
    /\ UNCHANGED << store, sent, ops >>
    /\ Score_unchanged

\* Lines 79-100, one turn of the loop: hget participants for one entry.
calculate_final_results_hget(t) ==
    /\ pc[t] = "calculate_final_results_loop"
    /\ loc[t].todo # << >>
    /\ Goto(t, "calculate_final_results_loop",
            [loc[t] EXCEPT !.entries[Head(loc[t].todo)] =
                               final_results_entry(@, participants),
                           !.todo = Tail(@)])
    /\ UNCHANGED << store, sent, ops >>
    /\ Score_unchanged

\* ------------------------------------------ websocket.handle_request_leaderboard
\* Line 461: list.sort(key=score, reverse=True) is stable, so x goes behind
\* every entry whose score is not smaller.
RECURSIVE score_sort_insert(_, _)
score_sort_insert(sorted, x) ==
    IF sorted = << >> THEN << x >>
    ELSE IF sorted[1].score >= x.score
    THEN << sorted[1] >> \o score_sort_insert(Tail(sorted), x)
    ELSE << x >> \o sorted

RECURSIVE score_sort_stable(_)
score_sort_stable(entries) ==
    IF entries = << >> THEN << >>
    ELSE score_sort_insert(score_sort_stable(SubSeq(entries, 1, Len(entries) - 1)),
                           entries[Len(entries)])

\* Lines 451-459: the entry of one participant of the session read at line 428.
request_leaderboard_entry(participant_data, question_index) ==
    [user_id |-> participant_data.user_id, score |-> participant_data.score,
     question_index |-> question_index,
     answered_count |-> Len(participant_data.answers),
     total_questions |-> total_questions, connected |-> participant_data.connected]

\* Lines 423-441: get_session (one hgetall) gives the participants to list.
handle_request_leaderboard(t) ==
    /\ Begin(t)
    /\ sent' = [sent EXCEPT ![t] = << >>]
    /\ Goto(t, "request_leaderboard_loop",
            [NoLoc EXCEPT !.participants = participants,
                          !.todo = [k \in 1..Len(participants) |-> k]])
    /\ UNCHANGED store
    /\ Score_unchanged

\* Lines 442-459 and get_participant_question_index lines 301-310, one turn
\* of the loop: redis.get of the participant's cursor key; with a key the
\* entry is appended.
request_leaderboard_get(t) ==
    /\ pc[t] = "request_leaderboard_loop"
    /\ loc[t].todo # << >>
    /\ LET participant_data == loc[t].participants[Head(loc[t].todo)]
           index == cursor[participant_data.user_id]
       IN  IF index # None
           THEN Goto(t, "request_leaderboard_loop",
                     [loc[t] EXCEPT !.entries =
                                        Append(@, request_leaderboard_entry(participant_data, index)),
                                    !.todo = Tail(@)])
           ELSE Goto(t, "request_leaderboard_derive", loc[t])
    /\ UNCHANGED << store, sent, ops >>
    /\ Score_unchanged

\* get_participant_question_index lines 312-327: without a key, hget of the
\* participants and the index derived from the stored answers.
request_leaderboard_derive(t) ==
    /\ pc[t] = "request_leaderboard_derive"
    /\ LET participant_data == loc[t].participants[Head(loc[t].todo)]
           index == derived_question_index(participants, participant_data.user_id)
       IN  Goto(t, "request_leaderboard_loop",
                [loc[t] EXCEPT !.entries =
                                   Append(@, request_leaderboard_entry(participant_data, index)),
                               !.todo = Tail(@)])
    /\ UNCHANGED << store, sent, ops >>
    /\ Score_unchanged

\* Lines 461-474: the sort and the leaderboard_response to the requester.
request_leaderboard_send(t) ==
    /\ pc[t] = "request_leaderboard_loop"
    /\ loc[t].todo = << >>
    /\ sent' = [sent EXCEPT ![t] =
            << Personal("leaderboard_response",
                        [leaderboard |-> score_sort_stable(loc[t].entries),
                         total_questions |-> total_questions]) >>]
    /\ Return(t)
    /\ UNCHANGED << store, ops >>
    /\ Score_unchanged

\* ------------------------------------------------- websocket.handle_start_quiz
\* Lines 196-214: the host check, and the hset of per_question_time_limit
\* when the message carries a payload.
handle_start_quiz(t, payload) ==
    /\ Begin(t)
    /\ IF ~is_host(TaskUser(t))
       THEN /\ sent' = [sent EXCEPT ![t] = << Personal("error", "Only host can start the quiz") >>]
            /\ Return(t)
            /\ UNCHANGED per_question_time_limit
       ELSE /\ sent' = [sent EXCEPT ![t] = << >>]
            /\ per_question_time_limit' =
                   IF payload = None THEN per_question_time_limit ELSE payload
            /\ Goto(t, "start_session", NoLoc)
    /\ UNCHANGED << status, participants, current_question_index, question_start_time, cursor >>
    /\ Score_unchanged

\* Mutant: start_session returns without writing the status.
start_session_status_kept(t) ==
    /\ pc[t] = "start_session"
    /\ Goto(t, "start_quiz_get_session", NoLoc)
    /\ UNCHANGED << store, sent, ops >>
    /\ Score_unchanged

\* SessionManager.start_session lines 121-138, called at line 217: whatever
\* the current status, hset status active.
start_session(t) ==
    /\ pc[t] = "start_session"
    /\ status' = "active"
    /\ Goto(t, "start_quiz_get_session", NoLoc)
    /\ UNCHANGED << participants, current_question_index, per_question_time_limit,
                    question_start_time, cursor, sent, ops >>
    /\ Score_unchanged

\* Lines 226-227: get_session; the keys of its participants are the users
\* whose cursor the loop of lines 229-231 will set.
start_quiz_get_session(t) ==
    /\ pc[t] = "start_quiz_get_session"
    /\ Goto(t, "start_quiz_cursors",
            [NoLoc EXCEPT !.todo = [k \in 1..Len(participants) |-> participants[k].user_id],
                          !.limit = per_question_time_limit])
    /\ UNCHANGED << store, sent, ops >>
    /\ Score_unchanged

\* GameController.set_participant_question_index lines 329-333, one call of
\* the loop: redis.set of one cursor key to 0.
start_quiz_set_cursor(t) ==
    /\ pc[t] = "start_quiz_cursors"
    /\ loc[t].todo # << >>
    /\ cursor' = [cursor EXCEPT ![Head(loc[t].todo)] = 0]
    /\ Goto(t, "start_quiz_cursors", [loc[t] EXCEPT !.todo = Tail(@)])
    /\ UNCHANGED << status, participants, current_question_index, per_question_time_limit,
                    question_start_time, sent, ops >>
    /\ Score_unchanged

\* GameController.get_total_questions lines 335-347: the number of questions
\* of the quiz read now, 0 without a quiz.
get_total_questions == Len(quiz_questions)

\* GameController.get_question_by_index lines 349-414.
get_question_by_index(index) ==
    IF index >= Len(quiz_questions) THEN << >>
    ELSE IF quiz_questions[index + 1].questionText = "" THEN << >>
    ELSE << [index |-> index, total |-> Len(quiz_questions)] >>

\* Lines 233-262: start_question_timer (hset question_start_time), question 0,
\* then the quiz_started and question broadcasts.
start_quiz_timer(t) ==
    /\ pc[t] = "start_quiz_cursors"
    /\ loc[t].todo = << >>
    /\ question_start_time' = TRUE
    /\ LET question_data == get_question_by_index(0)
           limit == IF loc[t].limit = None THEN default_per_question_time_limit
                    ELSE loc[t].limit
       IN  sent' = [sent EXCEPT ![t] =
                IF question_data = << >>
                THEN << Personal("error", "No questions available") >>
                ELSE << Broadcast("quiz_started", limit), Broadcast("question", question_data[1]) >>]
    /\ Return(t)
    /\ UNCHANGED << status, participants, current_question_index, per_question_time_limit,
                    cursor, ops >>
    /\ Score_unchanged

\* ---------------------------------------- live_multiplayer.start_quiz_session
\* Lines 173-191: 403 unless the caller presents the host's id; then
\* start_session.
start_quiz_session(t) ==
    /\ Begin(t)
    /\ IF TaskUser(t) # host_id
       THEN /\ sent' = [sent EXCEPT ![t] = << Http("start", 403, "Only host can start") >>]
            /\ UNCHANGED status
       ELSE /\ sent' = [sent EXCEPT ![t] = << Http("start", 200, "Quiz started successfully") >>]
            /\ status' = "active"
    /\ Return(t)
    /\ UNCHANGED << participants, current_question_index, per_question_time_limit,
                    question_start_time, cursor >>
    /\ Score_unchanged

\* ------------------------------------------------------ websocket.handle_end_quiz
\* Lines 396-408 and SessionManager.end_session lines 140-143: the host check,
\* then hset status completed.
handle_end_quiz(t) ==
    /\ Begin(t)
    /\ IF ~is_host(TaskUser(t))
       THEN /\ sent' = [sent EXCEPT ![t] = << Personal("error", "Only host can end the quiz") >>]
            /\ Return(t)
            /\ UNCHANGED status
       ELSE /\ sent' = [sent EXCEPT ![t] = << >>]
            /\ status' = "completed"
            /\ Goto(t, "calculate_final_results", [NoLoc EXCEPT !.via = "end_quiz"])
    /\ UNCHANGED << participants, current_question_index, per_question_time_limit,
                    question_start_time, cursor >>
    /\ Score_unchanged

\* Lines 410-420: with the final results computed, the quiz_ended broadcast.
end_quiz_results(t) ==
    /\ pc[t] = "calculate_final_results_loop"
    /\ loc[t].todo = << >>
    /\ loc[t].via = "end_quiz"
    /\ sent' = [sent EXCEPT ![t] = << Broadcast("quiz_ended", loc[t].entries) >>]
    /\ Return(t)
    /\ UNCHANGED << store, ops >>
    /\ Score_unchanged

\* ------------------------------------------ live_multiplayer.end_quiz_session
\* Lines 199-215.
end_quiz_session(t) ==
    /\ Begin(t)
    /\ IF TaskUser(t) # host_id
       THEN /\ sent' = [sent EXCEPT ![t] = << Http("end", 403, "Only host can end") >>]
            /\ UNCHANGED status
       ELSE /\ sent' = [sent EXCEPT ![t] = << Http("end", 200, "Quiz session ended") >>]
            /\ status' = "completed"
    /\ Return(t)
    /\ UNCHANGED << participants, current_question_index, per_question_time_limit,
                    question_start_time, cursor >>
    /\ Score_unchanged

\* ---------------------------------------------- websocket.handle_next_question
\* GameController.advance_question lines 236-246: hincrby of
\* current_question_index by 1, with no upper limit.  No handler and no route
\* calls it.
advance_question(index) == index + 1

\* Mutant: the host's next_question runs advance_question and broadcasts the
\* index it produced.
handle_next_question_advancing(t) ==
    /\ Begin(t)
    /\ IF ~is_host(TaskUser(t))
       THEN /\ sent' = [sent EXCEPT ![t] = << Personal("error", "Only host can control questions") >>]
            /\ UNCHANGED current_question_index
       ELSE /\ current_question_index' = advance_question(current_question_index)
            /\ sent' = [sent EXCEPT ![t] =
                    << Broadcast("question", [index |-> advance_question(current_question_index),
                                              total |-> Len(quiz_questions)]) >>]
    /\ Return(t)
    /\ UNCHANGED << status, participants, per_question_time_limit, question_start_time, cursor >>
    /\ Score_unchanged

\* Lines 309-331.  A caller who is not the host gets an error.  For the host,
\* line 321 calls game_controller.next_question, which GameController does
\* not define: the call raises AttributeError, websocket_endpoint catches it
\* (lines 74-75) and logs it; nothing is written and nothing is sent.
handle_next_question(t) ==
    /\ Begin(t)
    /\ IF ~is_host(TaskUser(t))
       THEN sent' = [sent EXCEPT ![t] = << Personal("error", "Only host can control questions") >>]
       ELSE sent' = [sent EXCEPT ![t] =
                << Logged("error", "'GameController' object has no attribute 'next_question'") >>]
    /\ Return(t)
    /\ UNCHANGED store
    /\ Score_unchanged

\* ----------------------------------- websocket.handle_request_next_question
\* Line 339 and get_participant_question_index lines 301-310: redis.get of
\* the cursor key.
handle_request_next_question(t) ==
    /\ Begin(t)
    /\ sent' = [sent EXCEPT ![t] = << >>]
    /\ IF cursor[TaskUser(t)] # None
       THEN Goto(t, "request_next_decide", [NoLoc EXCEPT !.index = cursor[TaskUser(t)]])
       ELSE Goto(t, "request_next_derive", NoLoc)
    /\ UNCHANGED store
    /\ Score_unchanged

\* get_participant_question_index lines 312-327: hget participants.
request_next_derive(t) ==
    /\ pc[t] = "request_next_derive"
    /\ Goto(t, "request_next_decide",
            [loc[t] EXCEPT !.index = derived_question_index(participants, TaskUser(t))])
    /\ UNCHANGED << store, sent, ops >>
    /\ Score_unchanged

\* Mutant: no participant is ever finished.
request_next_finished_never(participant_question_index, total) == FALSE

\* Mutant: finished only from index total on.
request_next_finished_at_total(participant_question_index, total) ==
    participant_question_index >= total

\* Line 346: the participant is at the last question.
request_next_finished(participant_question_index, total) ==
    participant_question_index >= total - 1

\* Lines 340-377: finished, so on to the final results; otherwise redis.set
\* of the cursor key to index + 1 and the question at that index, or the
\* final results when there is no such question.
request_next_decide(t) ==
    /\ pc[t] = "request_next_decide"
    /\ IF request_next_finished(loc[t].index, get_total_questions)
       THEN /\ sent' = sent
            /\ UNCHANGED cursor
            /\ Goto(t, "calculate_final_results", [NoLoc EXCEPT !.via = "quiz_completed"])
       ELSE LET next_index == loc[t].index + 1
                question_data == get_question_by_index(next_index)
            IN  /\ cursor' = [cursor EXCEPT ![TaskUser(t)] = next_index]
                /\ IF question_data = << >>
                   THEN /\ sent' = sent
                        /\ Goto(t, "calculate_final_results",
                                [NoLoc EXCEPT !.via = "quiz_completed"])
                   ELSE /\ sent' = [sent EXCEPT ![t] =
                                << Personal("question", question_data[1]) >>]
                        /\ Return(t)
    /\ UNCHANGED << status, participants, current_question_index, per_question_time_limit,
                    question_start_time, ops >>
    /\ Score_unchanged

\* Lines 350-360 and 383-392: with the final results computed, quiz_completed
\* to the requester.
request_next_completed(t) ==
    /\ pc[t] = "calculate_final_results_loop"
    /\ loc[t].todo = << >>
    /\ loc[t].via = "quiz_completed"
    /\ sent' = [sent EXCEPT ![t] = << Personal("quiz_completed", loc[t].entries) >>]
    /\ Return(t)
    /\ UNCHANGED << store, ops >>
    /\ Score_unchanged

\* ------------------------------------------------------------ specification
\* The state right after SessionManager.create_session (lines 29-41): status
\* waiting, index 0, participants "{}", no per_question_time_limit field, no
\* cursor key; or that state after one completed join of alice.
Init ==
    /\ status = "waiting"
    /\ participants \in { << >>, add_participant_update(<< >>, "alice") }
    /\ current_question_index = 0
    /\ per_question_time_limit = None
    /\ question_start_time = FALSE
    /\ cursor = [u \in Users |-> None]
    /\ pc = [t \in Tasks |-> "idle"]
    /\ loc = [t \in Tasks |-> NoLoc]
    /\ sent = [t \in Tasks |-> << >>]
    /\ ops = 0
    /\ score_in = << >>
    /\ score_out = None
    /\ manager_init
    /\ sessions_init
    /\ frames_init
    /\ quiz_init

\* The host sends the host's requests and the participants theirs; every
\* user may join on either route.
Next ==
    \/ \E t \in Tasks : handle_join(t)
    \/ \E t \in Tasks : handle_join_after(t)
    \/ \E t \in Tasks : handle_join_question(t)
    \/ \E t \in Tasks : join_session(t)
    \/ \E t \in Tasks : join_session_after(t)
    \/ \E t \in Tasks : add_participant_hget(t)
    \/ \E t \in Tasks : add_participant_hset(t)
    \/ \E t \in ParticipantTasks : \E answer \in Answers : \E timestamp \in Timestamps :
            handle_submit_answer(t, answer, timestamp)
    \/ \E t \in Tasks : submit_answer_derive(t)
    \/ \E t \in Tasks : submit_answer_hmget(t)
    \/ \E t \in Tasks : submit_answer_hset(t)
    \/ \E t \in Tasks : get_leaderboard(t)
    \/ \E t \in HostTasks : \E payload \in StartPayloads : handle_start_quiz(t, payload)
    \/ \E t \in Tasks : start_session(t)
    \/ \E t \in Tasks : start_quiz_get_session(t)
    \/ \E t \in Tasks : start_quiz_set_cursor(t)
    \/ \E t \in Tasks : start_quiz_timer(t)
    \/ \E t \in HostTasks : start_quiz_session(t)
    \/ \E t \in HostTasks : handle_end_quiz(t)
    \/ \E t \in Tasks : calculate_final_results_hmget(t)
    \/ \E t \in Tasks : calculate_final_results_hget(t)
    \/ \E t \in Tasks : end_quiz_results(t)
    \/ \E t \in HostTasks : end_quiz_session(t)
    \/ \E t \in ParticipantTasks : handle_request_next_question(t)
    \/ \E t \in Tasks : request_next_derive(t)
    \/ \E t \in Tasks : request_next_decide(t)
    \/ \E t \in Tasks : request_next_completed(t)

Spec == Init /\ [][Next]_vars

\* ------------------------------------------------------------ a full session
\* The participants dict after n users, named by their number, have joined
\* (SessionManager.add_participant lines 96-106, n times).
FullSession(n) ==
    [k \in 1..n |-> [user_id |-> ToString(k), connected |-> TRUE, score |-> 0,
                     answers |-> << >>]]

\* A waiting session that MAX_PARTICIPANTS_PER_SESSION users have joined;
\* alice, bob and the host join over the channel or the HTTP route.  Nobody
\* reconnects to a started quiz, so handle_join never sends a question.
FullInit ==
    /\ status = "waiting"
    /\ participants = FullSession(MAX_PARTICIPANTS_PER_SESSION)
    /\ current_question_index = 0
    /\ per_question_time_limit = None
    /\ question_start_time = FALSE
    /\ cursor = [u \in Users |-> None]
    /\ pc = [t \in Tasks |-> "idle"]
    /\ loc = [t \in Tasks |-> NoLoc]
    /\ sent = [t \in Tasks |-> << >>]
    /\ ops = 0
    /\ score_in = << >>
    /\ score_out = None
    /\ manager_init
    /\ sessions_init
    /\ frames_init
    /\ quiz_init

FullNext ==
    \/ \E t \in Tasks : handle_join(t)
    \/ \E t \in Tasks : handle_join_after(t)
    \/ \E t \in Tasks : join_session(t)
    \/ \E t \in Tasks : join_session_after(t)
    \/ \E t \in Tasks : add_participant_hget(t)
    \/ \E t \in Tasks : add_participant_hset(t)

FullSpec == FullInit /\ [][FullNext]_vars

\* ------------------------------------------- websocket.websocket_endpoint loop
\* The texts a client sends: one that json.loads refuses, a type the
\* dispatch does not know, and request_next_question.
FrameTexts == {"not json", "ping", "request_next_question"}

\* json.loads (line 40): no message for a text that is not JSON, else the
\* envelope with its type.
json_loads(text) == IF text = "not json" THEN << >> ELSE << [type |-> text] >>

\* The message types of the dispatch, lines 46-67.
MessageTypes == {"join", "start_quiz", "submit_answer", "next_question",
                 "request_next_question", "end_quiz", "request_leaderboard"}

\* A client sends a text frame; it waits, numbered by arrival, until the
\* loop's iter_text (line 38) reads it.
receive_text(t, text) ==
    /\ ops < MaxOps
    /\ ops' = ops + 1
    /\ frames' = [frames EXCEPT ![t].inbox = Append(@, [seq |-> ops', text |-> text])]
    /\ UNCHANGED << store, pc, loc, sent, score_in, score_out, manager, sessions, quiz >>

\* The frame iter_text yields next, line 38: the oldest one waiting, once the
\* handler of the previous frame has returned.
iter_text(t) ==
    /\ pc[t] = "idle"
    /\ frames[t].inbox # << >>
    /\ frames' = [frames EXCEPT ![t].inbox = Tail(@),
                                ![t].handled = Append(@, Head(frames[t].inbox))]

\* What every step of the loop leaves alone besides the store.
Loop_unchanged == UNCHANGED << ops, score_in, score_out, manager, sessions, quiz >>

\* Mutant: a message of unknown type is answered with an error message.
websocket_endpoint_unknown_answered(t) ==
    /\ iter_text(t)
    /\ LET message == json_loads(Head(frames[t].inbox).text)
       IN  /\ message # << >>
           /\ message[1].type \notin MessageTypes
    /\ sent' = [sent EXCEPT ![t] = << Personal("error", "Unknown message type") >>]
    /\ Return(t)
    /\ UNCHANGED store
    /\ Loop_unchanged

\* Lines 69-70: a type none of the branches names is logged, and the loop
\* goes on to the next frame.
websocket_endpoint_unknown(t) ==
    /\ iter_text(t)
    /\ LET message == json_loads(Head(frames[t].inbox).text)
       IN  /\ message # << >>
           /\ message[1].type \notin MessageTypes
    /\ sent' = [sent EXCEPT ![t] = << Logged("warning", "Unknown message type") >>]
    /\ Return(t)
    /\ UNCHANGED store
    /\ Loop_unchanged

\* Lines 72-73: json.loads raised JSONDecodeError; it is logged inside the
\* loop, which goes on to the next frame.
websocket_endpoint_invalid_json(t) ==
    /\ iter_text(t)
    /\ json_loads(Head(frames[t].inbox).text) = << >>
    /\ sent' = [sent EXCEPT ![t] = << Logged("error", "Invalid JSON") >>]
    /\ Return(t)
    /\ UNCHANGED store
    /\ Loop_unchanged

\* Lines 58-59 and handle_request_next_question line 339: the frame is a
\* request_next_question; redis.get of the requester's cursor key.
websocket_endpoint_request_next_question(t) ==
    /\ iter_text(t)
    /\ LET message == json_loads(Head(frames[t].inbox).text)
       IN  /\ message # << >>
           /\ message[1].type = "request_next_question"
    /\ sent' = [sent EXCEPT ![t] = << >>]
    /\ IF cursor[TaskUser(t)] # None
       THEN Goto(t, "request_next_decide", [NoLoc EXCEPT !.index = cursor[TaskUser(t)]])
       ELSE Goto(t, "request_next_derive", NoLoc)
    /\ UNCHANGED store
    /\ Loop_unchanged

\* A session of alice and bob, waiting or started; every participant's
\* connection receives frames while its loop dispatches them.
DispatchInit ==
    /\ participants = add_participant_update(add_participant_update(<< >>, "alice"), "bob")
    /\ \/ /\ status = "waiting"
          /\ question_start_time = FALSE
          /\ cursor = [u \in Users |-> None]
       \/ /\ status = "active"
          /\ question_start_time = TRUE
          /\ cursor = [u \in Users |-> IF u \in Ids(participants) THEN 0 ELSE None]
    /\ current_question_index = 0
    /\ per_question_time_limit = None
    /\ pc = [t \in Tasks |-> "idle"]
    /\ loc = [t \in Tasks |-> NoLoc]
    /\ sent = [t \in Tasks |-> << >>]
    /\ ops = 0
    /\ score_in = << >>
    /\ score_out = None
    /\ manager_init
    /\ sessions_init
    /\ frames_init
    /\ quiz_init

DispatchNext ==
    \/ \E t \in ParticipantTasks : \E text \in FrameTexts : receive_text(t, text)
    \/ \E t \in Tasks : websocket_endpoint_unknown(t)
    \/ \E t \in Tasks : websocket_endpoint_invalid_json(t)
    \/ \E t \in Tasks : websocket_endpoint_request_next_question(t)
    \/ \E t \in Tasks : request_next_derive(t)
    \/ \E t \in Tasks : request_next_decide(t)
    \/ \E t \in Tasks : calculate_final_results_hmget(t)
    \/ \E t \in Tasks : calculate_final_results_hget(t)
    \/ \E t \in Tasks : request_next_completed(t)

DispatchSpec == DispatchInit /\ [][DispatchNext]_vars

\* ------------------------------------------------- the quiz store's answers
\* A question document; the fields a type does not use are empty.
Question(type, correctAnswerIndex, questionText) ==
    [type |-> type, correctAnswerIndex |-> correctAnswerIndex, questionText |-> questionText,
     correctAnswerIndices |-> {}, correctMatches |-> {}]

\* What quiz_collection.find_one can return for the session's quiz_id: no
\* document, a document without questions, one whose first question has a
\* type submit_answer does not know, one whose first question has no text,
\* and the document the session was created with.
QuizDocuments ==
    { << >>,
      << << >> >>,
      << << Question("essay", 0, "q0"), Question("singleMcq", 1, "q1") >> >>,
      << << Question("singleMcq", 0, ""), Question("singleMcq", 1, "q1") >> >>,
      << Quiz >> }

\* A session with its participants joined, waiting or started, over each
\* answer of the quiz store.  The host starts the quiz; every user, the host
\* included, may submit an answer; participants request their next question.
QuizInit ==
    /\ participants \in { add_participant_update(<< >>, "alice"),
                          add_participant_update(add_participant_update(<< >>, "alice"), "bob") }
    /\ \/ /\ status = "waiting"
          /\ question_start_time = FALSE
          /\ cursor = [u \in Users |-> None]
       \/ /\ status = "active"
          /\ question_start_time = TRUE
          /\ cursor = [u \in Users |-> IF u \in Ids(participants) THEN 0 ELSE None]
    /\ current_question_index = 0
    /\ per_question_time_limit = None
    /\ pc = [t \in Tasks |-> "idle"]
    /\ loc = [t \in Tasks |-> NoLoc]
    /\ sent = [t \in Tasks |-> << >>]
    /\ ops = MaxOps - 2
    /\ score_in = << >>
    /\ score_out = None
    /\ manager_init
    /\ sessions_init
    /\ frames_init
    /\ quiz \in QuizDocuments

QuizNext ==
    \/ \E t \in HostTasks : \E payload \in StartPayloads : handle_start_quiz(t, payload)
    \/ \E t \in Tasks : start_session(t)
    \/ \E t \in Tasks : start_quiz_get_session(t)
    \/ \E t \in Tasks : start_quiz_set_cursor(t)
    \/ \E t \in Tasks : start_quiz_timer(t)
    \/ \E t \in Tasks : \E answer \in Answers : \E timestamp \in Timestamps :
            handle_submit_answer(t, answer, timestamp)
    \/ \E t \in Tasks : submit_answer_derive(t)
    \/ \E t \in Tasks : submit_answer_hmget(t)
    \/ \E t \in Tasks : submit_answer_hset(t)
    \/ \E t \in Tasks : get_leaderboard(t)
    \/ \E t \in ParticipantTasks : handle_request_next_question(t)
    \/ \E t \in Tasks : request_next_derive(t)
    \/ \E t \in Tasks : request_next_decide(t)
    \/ \E t \in Tasks : calculate_final_results_hmget(t)
    \/ \E t \in Tasks : calculate_final_results_hget(t)
    \/ \E t \in Tasks : request_next_completed(t)

QuizSpec == QuizInit /\ [][QuizNext]_vars

\* ------------------------------------------ the host's controls, live mode
\* A session with its participants joined, either still waiting or right
\* after a start_quiz (status active, every cursor 0, the timer stored).
\* Every user may send start_quiz, next_question and end_quiz and call the
\* HTTP start and end routes with the user's own id as host_id; participants
\* submit answers.
LiveInit ==
    /\ participants \in { add_participant_update(<< >>, "alice"),
                          add_participant_update(add_participant_update(<< >>, "alice"), "bob") }
    /\ \/ /\ status = "waiting"
          /\ question_start_time = FALSE
          /\ cursor = [u \in Users |-> None]
       \/ /\ status = "active"
          /\ question_start_time = TRUE
          /\ cursor = [u \in Users |-> IF u \in Ids(participants) THEN 0 ELSE None]
    /\ current_question_index = 0
    /\ per_question_time_limit = None
    /\ pc = [t \in Tasks |-> "idle"]
    /\ loc = [t \in Tasks |-> NoLoc]
    /\ sent = [t \in Tasks |-> << >>]
    /\ ops = 0
    /\ score_in = << >>
    /\ score_out = None
    /\ manager_init
    /\ sessions_init
    /\ frames_init
    /\ quiz_init

LiveNext ==
    \/ \E t \in Tasks : \E payload \in StartPayloads : handle_start_quiz(t, payload)
    \/ \E t \in Tasks : start_session(t)
    \/ \E t \in Tasks : start_quiz_get_session(t)
    \/ \E t \in Tasks : start_quiz_set_cursor(t)
    \/ \E t \in Tasks : start_quiz_timer(t)
    \/ \E t \in Tasks : start_quiz_session(t)
    \/ \E t \in Tasks : handle_next_question(t)
    \/ \E t \in Tasks : handle_end_quiz(t)
    \/ \E t \in Tasks : calculate_final_results_hmget(t)
    \/ \E t \in Tasks : calculate_final_results_hget(t)
    \/ \E t \in Tasks : end_quiz_results(t)
    \/ \E t \in Tasks : end_quiz_session(t)
    \/ \E t \in ParticipantTasks : \E answer \in Answers : \E timestamp \in Timestamps :
            handle_submit_answer(t, answer, timestamp)
    \/ \E t \in Tasks : submit_answer_derive(t)
    \/ \E t \in Tasks : submit_answer_hmget(t)
    \/ \E t \in Tasks : submit_answer_hset(t)
    \/ \E t \in Tasks : get_leaderboard(t)

LiveSpec == LiveInit /\ [][LiveNext]_vars

\* ------------------------------------------------------ the leaderboard alone
\* Sessions whose participants joined in any order and answered the first
\* questions of the quiz in any way; one more answer is submitted and the
\* leaderboard_update that follows it is computed by get_leaderboard.
BoardUsers == {"alice", "bob", "carol"}

\* What a participant answered so far: for each of the first questions,
\* whether the answer was the correct one.
AnswerSheets ==
    { << >> } \cup { << c >> : c \in BOOLEAN } \cup { << c, d >> : c, d \in BOOLEAN }

RECURSIVE sheet_participant(_, _)
\* The participant record after add_participant and one submit_answer per
\* entry of the sheet.
sheet_participant(user_id, sheet) ==
    IF sheet = << >>
    THEN add_participant_update(<< >>, user_id)[1]
    ELSE LET k == Len(sheet)
             is_correct == sheet[k]
             answer == IF is_correct THEN Quiz[k].correctAnswerIndex
                       ELSE 1 - Quiz[k].correctAnswerIndex
         IN  record_answer(sheet_participant(user_id, SubSeq(sheet, 1, k - 1)),
                           k - 1, answer, QUESTION_TIME_SECONDS, is_correct,
                           calculate_points(is_correct, QUESTION_TIME_SECONDS))

BoardParticipants ==
    { ps \in UNION { [1..n -> { sheet_participant(u, sh) : u \in BoardUsers, sh \in AnswerSheets }]
                      : n \in 1..Cardinality(BoardUsers) } :
        \A i, j \in 1..Len(ps) : ps[i].user_id = ps[j].user_id => i = j }

LeaderboardInit ==
    /\ participants \in BoardParticipants
    /\ status = "active"
    /\ question_start_time = TRUE
    /\ cursor = [u \in Users |-> None]
    /\ current_question_index = 0
    /\ per_question_time_limit = None
    /\ pc = [t \in Tasks |-> "idle"]
    /\ loc = [t \in Tasks |-> NoLoc]
    /\ sent = [t \in Tasks |-> << >>]
    /\ ops = MaxOps - 1
    /\ score_in = << >>
    /\ score_out = None
    /\ manager_init
    /\ sessions_init
    /\ frames_init
    /\ quiz_init

LeaderboardNext ==
    \/ \E t \in ParticipantTasks : \E answer \in Answers : \E timestamp \in Timestamps :
            handle_submit_answer(t, answer, timestamp)
    \/ \E t \in Tasks : submit_answer_derive(t)
    \/ \E t \in Tasks : submit_answer_hmget(t)
    \/ \E t \in Tasks : submit_answer_hset(t)
    \/ \E t \in Tasks : get_leaderboard(t)
    \/ \E t \in Tasks : handle_request_leaderboard(t)
    \/ \E t \in Tasks : request_leaderboard_get(t)
    \/ \E t \in Tasks : request_leaderboard_derive(t)
    \/ \E t \in Tasks : request_leaderboard_send(t)

LeaderboardSpec == LeaderboardInit /\ [][LeaderboardNext]_vars

\* ------------------------------------------------- the scoring function alone
\* One scoring of one answer: the inputs are drawn in ScoreInit, score_answer
\* applies lines 177-188 of GameController.submit_answer to them.
ScoreInit ==
    /\ status = "waiting"
    /\ participants = << >>
    /\ current_question_index = 0
    /\ per_question_time_limit = None
    /\ question_start_time = FALSE
    /\ cursor = [u \in Users |-> None]
    /\ pc = [t \in Tasks |-> "idle"]
    /\ loc = [t \in Tasks |-> NoLoc]
    /\ sent = [t \in Tasks |-> << >>]
    /\ ops = 0
    /\ score_in \in [is_correct : BOOLEAN, timestamp : (0 - MaxNegTimestamp)..MaxTimestamp]
    /\ score_out = None
    /\ manager_init
    /\ sessions_init
    /\ frames_init
    /\ quiz_init

score_answer ==
    /\ score_out = None
    /\ score_out' = calculate_points(score_in.is_correct, score_in.timestamp)
    /\ UNCHANGED << store, pc, loc, sent, ops, score_in, manager, sessions, frames, quiz >>

ScoreNext == score_answer

ScoreSpec == ScoreInit /\ [][ScoreNext]_vars

\* ------------------------------------------------------- ConnectionManager
\* list.remove: the list without the first occurrence of x.
RECURSIVE list_remove(_, _)
list_remove(list, x) ==
    IF list = << >> THEN << >>
    ELSE IF list[1] = x THEN Tail(list)
    ELSE << list[1] >> \o list_remove(Tail(list), x)

InList(list, x) == \E k \in 1..Len(list) : list[k] = x

Session_unchanged == UNCHANGED << store, score_in, score_out, sessions, frames, quiz >>

\* websocket_endpoint lines 28-34 and ConnectionManager.connect lines 17-31:
\* the accepted channel is appended to the session's list and becomes the
\* user's entry of user_connections.
connect(c) ==
    /\ channel[c] = "new"
    /\ channel' = [channel EXCEPT ![c] = "open"]
    /\ active_connections' = Append(active_connections, c)
    /\ user_connections' = [user_connections EXCEPT ![ChannelUser(c)] = c]
    /\ connection_roles' = connection_roles \cup {ChannelUser(c)}
    /\ UNCHANGED << delivered, pc, loc, sent, ops >>
    /\ Session_unchanged

\* The client of an open channel stops reading: send_json on it does not
\* return.
connection_stalls(c) ==
    /\ channel[c] = "open"
    /\ channel' = [channel EXCEPT ![c] = "stalled"]
    /\ UNCHANGED << active_connections, user_connections, connection_roles, delivered,
                    pc, loc, sent, ops >>
    /\ Session_unchanged

\* The client of a channel goes away: send_json on it raises.
connection_lost(c) ==
    /\ channel[c] \in {"open", "stalled"}
    /\ channel' = [channel EXCEPT ![c] = "broken"]
    /\ UNCHANGED << active_connections, user_connections, connection_roles, delivered,
                    pc, loc, sent, ops >>
    /\ Session_unchanged

\* websocket_endpoint lines 77-82 and ConnectionManager.disconnect lines
\* 33-51: the receive loop of a lost channel ends, once the handler it is
\* running has returned, and the channel is taken
\* out of the list; the user's role and user_connections entry are deleted
\* whichever channel they belong to.  When the list becomes empty the
\* session's key is deleted: a broadcast still iterating keeps the old,
\* empty list.
disconnect(c) ==
    /\ channel[c] = "broken"
    /\ pc[ChannelTask(c)] = "idle"
    /\ channel' = [channel EXCEPT ![c] = "closed"]
    /\ active_connections' = list_remove(active_connections, c)
    /\ connection_roles' = connection_roles \ {ChannelUser(c)}
    /\ user_connections' = [user_connections EXCEPT ![ChannelUser(c)] = NoChannel]
    /\ loc' = [t \in Tasks |->
                 IF /\ pc[t] \in {"broadcast_loop", "broadcast_send_json"}
                    /\ active_connections # << >>
                    /\ active_connections' = << >>
                 THEN [loc[t] EXCEPT !.via = "deleted_list"]
                 ELSE loc[t]]
    /\ UNCHANGED << delivered, pc, sent, ops >>
    /\ Session_unchanged

\* A message arrives on the channel of task t: the channel is connected and
\* its receive loop is waiting.
Receives(t) == Begin(t) /\ channel[TaskChannel(t)] \in {"open", "stalled"}

\* ConnectionManager.broadcast_to_session lines 68-70: the loop over the
\* session's list begins.  The message is numbered by the handler that sends
\* it; registered keeps, for the properties, the channels in the list now.
broadcast_to_session(t) ==
    /\ Receives(t)
    /\ sent' = [sent EXCEPT ![t] = << >>]
    /\ IF active_connections = << >>
       THEN Return(t)
       ELSE Goto(t, "broadcast_loop",
                 [NoLoc EXCEPT !.index = 0, !.message = ops',
                               !.registered = { active_connections[k] :
                                                  k \in 1..Len(active_connections) }])
    /\ UNCHANGED manager
    /\ Session_unchanged

\* Line 70, the list iterator: the element at its index, if the list has
\* one there, and the index moves on.
broadcast_next(t) ==
    /\ pc[t] = "broadcast_loop"
    /\ IF loc[t].via = "deleted_list" \/ loc[t].index >= Len(active_connections)
       THEN Return(t)
       ELSE Goto(t, "broadcast_send_json",
                 [loc[t] EXCEPT !.connection = active_connections[loc[t].index + 1],
                                !.index = @ + 1])
    /\ UNCHANGED << manager, sent, ops >>
    /\ Session_unchanged

\* The outcome of await send_json(message) on a channel that does not
\* stall: the client receives the message, or the send raises.
send_json(c, message) ==
    IF channel[c] = "open" THEN [delivered EXCEPT ![c] = Append(@, message)] ELSE delivered

\* Lines 71-74: await connection.send_json(message) returns or raises; the
\* exception is logged and the loop goes on.  On a stalled channel the await
\* does not return.
broadcast_send_json(t) ==
    /\ pc[t] = "broadcast_send_json"
    /\ channel[loc[t].connection] # "stalled"
    /\ delivered' = send_json(loc[t].connection, loc[t].message)
    /\ sent' = [sent EXCEPT ![t] =
            IF channel[loc[t].connection] = "open" THEN @
            ELSE Append(@, Logged("error", "Error broadcasting to session"))]
    /\ Goto(t, "broadcast_loop", loc[t])
    /\ UNCHANGED << active_connections, user_connections, connection_roles, channel, ops >>
    /\ Session_unchanged

\* ConnectionManager.send_personal_message lines 53-61, called with the
\* websocket of the handler's own channel.
send_personal_message(t) ==
    /\ Receives(t)
    /\ sent' = [sent EXCEPT ![t] = << >>]
    /\ Goto(t, "personal_send_json",
            [NoLoc EXCEPT !.connection = TaskChannel(t), !.message = ops'])
    /\ UNCHANGED manager
    /\ Session_unchanged

\* Lines 63-66: await websocket.send_json(message) returns or raises; the
\* exception is logged.
personal_send_json(t) ==
    /\ pc[t] = "personal_send_json"
    /\ channel[loc[t].connection] # "stalled"
    /\ delivered' = send_json(loc[t].connection, loc[t].message)
    /\ sent' = [sent EXCEPT ![t] =
            IF channel[loc[t].connection] = "open" THEN @
            ELSE Append(@, Logged("error", "Error sending personal message"))]
    /\ Return(t)
    /\ UNCHANGED << active_connections, user_connections, connection_roles, channel, ops >>
    /\ Session_unchanged

\* The session of ScoreInit with no channel opened yet; one handler is still
\* to run.
ConnInit ==
    /\ status = "waiting"
    /\ participants = << >>
    /\ current_question_index = 0
    /\ per_question_time_limit = None
    /\ question_start_time = FALSE
    /\ cursor = [u \in Users |-> None]
    /\ pc = [t \in Tasks |-> "idle"]
    /\ loc = [t \in Tasks |-> NoLoc]
    /\ sent = [t \in Tasks |-> << >>]
    /\ ops = MaxOps - 1
    /\ score_in = << >>
    /\ score_out = None
    /\ manager_init
    /\ sessions_init
    /\ frames_init
    /\ quiz_init

\* The tasks of the channels.
SendingTasks == { ChannelTask(c) : c \in Channels }

ConnNext ==
    \/ \E c \in Channels : connect(c)
    \/ \E c \in Channels : connection_stalls(c)
    \/ \E c \in Channels : connection_lost(c)
    \/ \E c \in Channels : disconnect(c)
    \/ \E t \in SendingTasks : broadcast_to_session(t)
    \/ \E t \in SendingTasks : broadcast_next(t)
    \/ \E t \in SendingTasks : broadcast_send_json(t)
    \/ \E t \in SendingTasks : send_personal_message(t)
    \/ \E t \in SendingTasks : personal_send_json(t)

ConnSpec == ConnInit /\ [][ConnNext]_vars

\* ------------------------------------------- SessionManager.create_session
Created_unchanged == UNCHANGED << store, score_in, score_out, manager, frames, quiz >>

\* Lines 29-41: the mapping that create_session stores.
session_data(session_code, host) ==
    [session_code |-> session_code, host_id |-> host, status |-> "waiting",
     current_question_index |-> 0, total_questions |-> total_questions,
     participants |-> << >>]

\* live_multiplayer.create_live_session lines 29-61: the quiz exists; the
\* call of create_session passes per_question_time_limit, a keyword that
\* create_session (line 18) does not take, so the call raises TypeError
\* before create_session runs, and the route answers 500.
create_live_session(t) ==
    /\ Begin(t)
    /\ sent' = [sent EXCEPT ![t] = << Http("create-session", 500, "Error creating live session") >>]
    /\ Return(t)
    /\ UNCHANGED sessions
    /\ Created_unchanged

\* Line 18: create_session(quiz_id, host_id, mode) is called.
create_session(t) ==
    /\ Begin(t)
    /\ sent' = [sent EXCEPT ![t] = << >>]
    /\ Goto(t, "_generate_unique_code", NoLoc)
    /\ UNCHANGED sessions
    /\ Created_unchanged

\* _generate_unique_code lines 49-55: a random code, and redis.exists says
\* that no session has it; a code that exists is drawn again.
generate_unique_code(t, code) ==
    /\ pc[t] = "_generate_unique_code"
    /\ sessions[code] = << >>
    /\ Goto(t, "create_session_hset", [NoLoc EXCEPT !.session_code = code])
    /\ UNCHANGED << sessions, sent, ops >>
    /\ Created_unchanged

\* Lines 24-47: the quiz is read, then hset with the mapping writes every
\* field of session_data into session:<code>, whether or not the key exists
\* by now, and the code is returned.
create_session_hset(t) ==
    /\ pc[t] = "create_session_hset"
    /\ sessions' = [sessions EXCEPT ![loc[t].session_code] =
                        << session_data(loc[t].session_code, TaskUser(t)) >>]
    /\ sent' = [sent EXCEPT ![t] = << Msg("return", "create_session", loc[t].session_code) >>]
    /\ Return(t)
    /\ UNCHANGED ops
    /\ Created_unchanged

\* SessionManager.end_session lines 140-143, on a created session: hset
\* status completed.
end_session(code) ==
    /\ sessions[code] # << >>
    /\ sessions[code][1].status # "completed"
    /\ sessions' = [sessions EXCEPT ![code][1].status = "completed"]
    /\ UNCHANGED << pc, loc, sent, ops >>
    /\ Created_unchanged

\* No session created yet.
CreateInit ==
    /\ status = "waiting"
    /\ participants = << >>
    /\ current_question_index = 0
    /\ per_question_time_limit = None
    /\ question_start_time = FALSE
    /\ cursor = [u \in Users |-> None]
    /\ pc = [t \in Tasks |-> "idle"]
    /\ loc = [t \in Tasks |-> NoLoc]
    /\ sent = [t \in Tasks |-> << >>]
    /\ ops = 0
    /\ score_in = << >>
    /\ score_out = None
    /\ manager_init
    /\ sessions_init
    /\ frames_init
    /\ quiz_init

CreateNext ==
    \/ \E t \in Tasks : create_live_session(t)
    \/ \E t \in Tasks : create_session(t)
    \/ \E t \in Tasks : \E code \in Codes : generate_unique_code(t, code)
    \/ \E t \in Tasks : create_session_hset(t)
    \/ \E code \in Codes : end_session(code)

CreateSpec == CreateInit /\ [][CreateNext]_vars

\* --------------------------------------------- the store's keys and their TTL
\* The session whose participant cursor keys the variable cursor holds.
StoredCode == "AAAAAA"

\* redis hset of one field: the hash is created when the key does not exist.
hset(code, field, value) ==
    IF sessions[code] = << >>
    THEN << [f \in {field} |-> value] >>
    ELSE << [f \in DOMAIN sessions[code][1] \cup {field} |->
                IF f = field THEN value ELSE sessions[code][1][f]] >>

\* redis hincrby by 1: a missing key or field counts as 0.
hincrby(code, field) ==
    IF sessions[code] # << >> /\ field \in DOMAIN sessions[code][1]
    THEN hset(code, field, sessions[code][1][field] + 1)
    ELSE hset(code, field, 1)

\* redis hget: None for a missing key or field.
hget(code, field) ==
    IF sessions[code] # << >> /\ field \in DOMAIN sessions[code][1]
    THEN << sessions[code][1][field] >>
    ELSE << >>

\* SessionManager.get_session lines 57-73: None when hgetall is empty, else
\* the hash.
get_session(code) == sessions[code]

\* Only create_session puts a TTL on a key (redis.expire, line 45), right
\* after writing session_code and the other fields; a key that an hset
\* created has none.
has_ttl(code) == sessions[code] # << >> /\ "session_code" \in DOMAIN sessions[code][1]

\* What the operations on the keys leave alone.
Store_unchanged ==
    UNCHANGED << status, participants, current_question_index, per_question_time_limit,
                 question_start_time, score_in, score_out, manager, frames, quiz >>

\* One more operation on the store.
StoreOp == ops < MaxOps /\ ops' = ops + 1

\* The TTL of session:<code> runs out: redis deletes that key and no other.
expire(code) ==
    /\ StoreOp
    /\ has_ttl(code)
    /\ sessions' = [sessions EXCEPT ![code] = << >>]
    /\ UNCHANGED << cursor, pc, loc, sent >>
    /\ Store_unchanged

\* SessionManager.end_session lines 140-143 for any code: hset status
\* completed.
end_session_hset(code) ==
    /\ StoreOp
    /\ sessions' = [sessions EXCEPT ![code] = hset(code, "status", "completed")]
    /\ UNCHANGED << cursor, pc, loc, sent >>
    /\ Store_unchanged

\* GameController.advance_question lines 236-246: hincrby of
\* current_question_index, then hset of question_start_time; both write
\* whatever the key holds.
advance_question_hincrby(code) ==
    /\ StoreOp
    /\ LET incremented == hincrby(code, "current_question_index")
       IN  sessions' = [sessions EXCEPT ![code] =
               << [f \in DOMAIN incremented[1] \cup {"question_start_time"} |->
                      IF f = "question_start_time" THEN TRUE ELSE incremented[1][f]] >>]
    /\ UNCHANGED << cursor, pc, loc, sent >>
    /\ Store_unchanged

\* GameController.start_question_timer lines 248-251: hset of
\* question_start_time.
start_question_timer(code) ==
    /\ StoreOp
    /\ sessions' = [sessions EXCEPT ![code] = hset(code, "question_start_time", TRUE)]
    /\ UNCHANGED << cursor, pc, loc, sent >>
    /\ Store_unchanged

\* SessionManager.add_participant lines 75-87: hget host_id, hget
\* participants; False for the host and for a key without participants.
session_add_participant_hget(t, code) ==
    /\ pc[t] = "idle"
    /\ StoreOp
    /\ IF hget(code, "host_id") = << TaskUser(t) >> \/ hget(code, "participants") = << >>
       THEN /\ sent' = [sent EXCEPT ![t] = << Msg("return", "add_participant", FALSE) >>]
            /\ Return(t)
       ELSE /\ sent' = [sent EXCEPT ![t] = << >>]
            /\ Goto(t, "session_add_participant_hset",
                    [NoLoc EXCEPT !.session_code = code,
                                  !.participants = hget(code, "participants")[1]])
    /\ UNCHANGED << sessions, cursor >>
    /\ Store_unchanged

\* Lines 89-109: the participants read, with the user added or marked
\* connected, are written back with hset.
session_add_participant_hset(t) ==
    /\ pc[t] = "session_add_participant_hset"
    /\ sessions' = [sessions EXCEPT ![loc[t].session_code] =
           hset(loc[t].session_code, "participants",
                add_participant_update(loc[t].participants, TaskUser(t)))]
    /\ sent' = [sent EXCEPT ![t] = << Msg("return", "add_participant", TRUE) >>]
    /\ Return(t)
    /\ UNCHANGED << cursor, ops >>
    /\ Store_unchanged

\* GameController.set_participant_question_index lines 329-333 for a
\* participant of the stored session: redis.set of the cursor key, a key of
\* its own without a TTL.
set_participant_question_index(user_id, index) ==
    /\ StoreOp
    /\ hget(StoredCode, "participants") # << >>
    /\ user_id \in Ids(hget(StoredCode, "participants")[1])
    /\ cursor' = [cursor EXCEPT ![user_id] = index]
    /\ UNCHANGED << sessions, pc, loc, sent >>
    /\ Store_unchanged

\* The session StoredCode as create_session stored it, with alice joined or
\* nobody; the other code was never created.
StoreInit ==
    /\ status = "waiting"
    /\ participants = << >>
    /\ current_question_index = 0
    /\ per_question_time_limit = None
    /\ question_start_time = FALSE
    /\ cursor = [u \in Users |-> None]
    /\ pc = [t \in Tasks |-> "idle"]
    /\ loc = [t \in Tasks |-> NoLoc]
    /\ sent = [t \in Tasks |-> << >>]
    /\ ops = 0
    /\ score_in = << >>
    /\ score_out = None
    /\ manager_init
    /\ \E ps \in { << >>, add_participant_update(<< >>, "alice") } :
          sessions = [code \in Codes |->
                         IF code = StoredCode
                         THEN << [session_data(code, host_id) EXCEPT !.participants = ps] >>
                         ELSE << >>]
    /\ frames_init
    /\ quiz_init

StoreNext ==
    \/ \E code \in Codes : expire(code)
    \/ \E code \in Codes : end_session_hset(code)
    \/ \E code \in Codes : advance_question_hincrby(code)
    \/ \E code \in Codes : start_question_timer(code)
    \/ \E t \in Tasks : \E code \in Codes : session_add_participant_hget(t, code)
    \/ \E t \in Tasks : session_add_participant_hset(t)
    \/ \E user_id \in Users : \E index \in 0..(total_questions - 1) :
            set_participant_question_index(user_id, index)

StoreSpec == StoreInit /\ [][StoreNext]_vars

\* ====================================================================
\* Properties
\* ====================================================================
AllIdle == \A t \in Tasks : pc[t] = "idle"

\* The last handler of task t was a join that reported success to its caller.
JoinSucceeded(t) ==
    /\ pc[t] = "idle"
    /\ sent[t] # << >>
    /\ LET m == sent[t][Len(sent[t])]
       IN  \/ m.kind = "personal" /\ m.type = "session_state"
           \/ m.kind = "http" /\ m.type = "join" /\ m.code = 200

\* The last handler of task t was a submit_answer answered with a result dict
\* that carries no error.
SubmitSucceeded(t) ==
    /\ pc[t] = "idle"
    /\ sent[t] # << >>
    /\ sent[t][1].type = "answer_result"
    /\ "error" \notin DOMAIN sent[t][1].payload

SubmitResult(t) == sent[t][1].payload

HasRecord(ps, u, is_correct, points) ==
    /\ u \in Ids(ps)
    /\ \E k \in 1..Len(Get(ps, u).answers) :
          /\ Get(ps, u).answers[k].is_correct = is_correct
          /\ Get(ps, u).answers[k].points_earned = points

\* C1: once every handler has returned, the effect of every join and every
\* submit_answer that reported success is in the stored participants: the
\* joined user is a participant, and the participant holds a record with the
\* reported correctness and points.
C1_NoLostWrite ==
    AllIdle =>
        \A t \in ParticipantTasks :
            /\ JoinSucceeded(t) => TaskUser(t) \in Ids(participants)
            /\ SubmitSucceeded(t) =>
                   HasRecord(participants, TaskUser(t),
                             SubmitResult(t).is_correct, SubmitResult(t).points)

\* C2: every participant holds at most one AnswerRecord per question_index.
C2_OneRecordPerQuestion ==
    \A k \in 1..Len(participants) :
        \A i, j \in 1..Len(participants[k].answers) :
            participants[k].answers[i].question_index =
                participants[k].answers[j].question_index => i = j

\* C2 witness: alice submitted on her two channels concurrently, both
\* submissions were answered with a result, and one record is stored.
C2_Witness ==
    /\ SubmitSucceeded("a1")
    /\ SubmitSucceeded("a2")
    /\ "alice" \in Ids(participants)
    /\ Len(Get(participants, "alice").answers) = 1

\* C3: every participant's stored score is the sum of points_earned over
\* the participant's stored answers.
C3_ScoreIsSum ==
    \A k \in 1..Len(participants) :
        participants[k].score = SumPoints(participants[k].answers)

\* C3 witness: a participant with a positive score, after another user joined.
C3_Witness ==
    /\ Len(participants) = 2
    /\ \E k \in 1..Len(participants) :
          participants[k].score > 0 /\ participants[k].answers # << >>

StatusRank(st) == CASE st = "waiting" -> 0 [] st = "active" -> 1 [] st = "completed" -> 2

\* C4: no step lowers the status in the order waiting < active < completed.
C4_StatusNeverDecreases ==
    [][StatusRank(status') >= StatusRank(status)]_vars

\* C5: a step that adds a user to participants is taken while the status is
\* waiting.
C5_NewParticipantOnlyWhileWaiting ==
    [][(Ids(participants') \ Ids(participants) # {}) => status = "waiting"]_vars

\* C6: the host is never a key of participants; a channel join sent by the
\* host is answered with session_state carrying the unchanged participants
\* and their count, and no join of the host on either route goes on to write
\* participants.
C6_HostNotParticipant ==
    /\ [](host_id \notin Ids(participants))
    /\ [][\A t \in HostTasks :
            /\ handle_join(t) =>
                  /\ sent'[t] = << Personal("session_state",
                                            SessionPayload(status, participants)) >>
                  /\ sent'[t][1].payload.participant_count = Len(participants')
                  /\ participants' = participants
                  /\ pc'[t] = "idle"
            /\ join_session(t) => participants' = participants /\ pc'[t] = "idle"]_vars

\* C6 witness: the host's channel join has been answered with session_state
\* while the session has a participant.
C6_Witness ==
    /\ pc["h1"] = "idle"
    /\ sent["h1"] # << >>
    /\ sent["h1"][1].type = "session_state"
    /\ sent["h1"][1].payload.participant_count = 1
    /\ Len(participants) = 1

\* C7: in every step every participant's score is non-negative and not
\* smaller than it was before the step.
C7_ScoreMonotone ==
    [][\A k \in 1..Len(participants') :
          /\ participants'[k].score >= 0
          /\ participants'[k].user_id \in Ids(participants) =>
                 participants'[k].score >= Get(participants, participants'[k].user_id).score]_vars

\* C8: when submit_answer reads a participants dict in which the sender
\* already holds a record for the index being answered, the reply carries the
\* error "Already answered", nothing is written then and the handler goes on
\* without a write, whatever the second answer is.
C8_DuplicateRejected ==
    [][\A t \in ParticipantTasks :
          ( /\ submit_answer_hmget(t)
            /\ TaskUser(t) \in Ids(participants)
            /\ \E k \in 1..Len(Get(participants, TaskUser(t)).answers) :
                  Get(participants, TaskUser(t)).answers[k].question_index = loc[t].index )
          => /\ sent'[t] = << Personal("answer_result", [error |-> "Already answered"]) >>
             /\ participants' = participants
             /\ pc'[t] = "get_leaderboard"]_vars

\* C8 witness: a submission has been answered "Already answered" and the
\* first answer of the sender is still the stored one.
C8_Witness ==
    \E t \in ParticipantTasks :
        /\ sent[t] # << >>
        /\ sent[t][1].type = "answer_result"
        /\ sent[t][1].payload = [error |-> "Already answered"]
        /\ TaskUser(t) \in Ids(participants)
        /\ Len(Get(participants, TaskUser(t)).answers) = 1

\* The points of the specification's formula for time limit L:
\* 1000 + floor(max(0, 1 - min(t, L)/L) * 500) if correct, else 0.
ClaimedPoints(is_correct, t, L) ==
    IF is_correct THEN 1000 + ((L - Min(t, L)) * 500) \div L ELSE 0

\* C9: the points of an answer with timestamp t >= 0 are those of the
\* formula with L the question time limit: 1500 at t = 0, 1000 at t >= L,
\* 0 when incorrect.
C9_PointsFormula ==
    (score_out # None /\ score_in.timestamp >= 0) =>
        score_out = ClaimedPoints(score_in.is_correct, score_in.timestamp,
                                  QUESTION_TIME_SECONDS)

\* C11: an answer with a negative timestamp earns what the formula gives at
\* timestamp 0, and no answer earns more than 1500 points.
C11_NegativeTimestampClamped ==
    score_out # None =>
        /\ score_out <= 1500
        /\ score_in.timestamp < 0 =>
               score_out = ClaimedPoints(score_in.is_correct, 0, QUESTION_TIME_SECONDS)

SessionLimit ==
    IF per_question_time_limit = None THEN default_per_question_time_limit
    ELSE per_question_time_limit

\* C10: the points submit_answer computes for a correct answer are those of
\* the formula with L the session's stored per_question_time_limit (30 when
\* none is stored).
C10_SessionLimitUsed ==
    [][\A t \in ParticipantTasks :
          ( /\ submit_answer_hmget(t)
            /\ pc'[t] = "submit_answer_hset" )
          => loc'[t].result.points =
                 ClaimedPoints(loc'[t].result.is_correct, loc[t].timestamp, SessionLimit)]_vars

\* The host's last handler was next_question.
NextQuestionHandled ==
    /\ pc["h1"] = "idle"
    /\ sent["h1"] # << >>
    /\ sent["h1"][1].kind = "log"

\* The stored answers of user u are exactly one record, for question 0.
AnsweredOnlyFirst(u) ==
    /\ u \in Ids(participants)
    /\ Len(Get(participants, u).answers) = 1
    /\ Get(participants, u).answers[1].question_index = 0

\* C12: once the host's next_question has been handled in an active session,
\* a submission of a participant whose only record is for question 0 is taken
\* for question 1; and a submission taken for question 1 by such a
\* participant is validated against question 1 and stored as a second record
\* with question_index 1.
C12_SecondQuestionAccepted ==
    [][\A t \in ParticipantTasks :
          /\ ( /\ \E answer \in Answers : \E timestamp \in Timestamps :
                     handle_submit_answer(t, answer, timestamp)
               /\ NextQuestionHandled
               /\ status = "active"
               /\ AnsweredOnlyFirst(TaskUser(t)) )
             => /\ pc'[t] = "submit_answer_hmget"
                /\ loc'[t].index = 1
          /\ ( /\ submit_answer_hmget(t)
               /\ loc[t].index = 1
               /\ AnsweredOnlyFirst(TaskUser(t)) )
             => /\ pc'[t] = "submit_answer_hset"
                /\ LET p == Get(loc'[t].participants, TaskUser(t))
                   IN  /\ Len(p.answers) = 2
                       /\ p.answers[2].question_index = 1
                       /\ p.answers[2].is_correct =
                              (loc[t].answer = Quiz[2].correctAnswerIndex)]_vars

\* C13: a next_question of the host at index i moves current_question_index
\* to i + 1 and broadcasts the question with index i + 1 when that question
\* exists; otherwise it sets status completed and broadcasts quiz_ended.
C13_NextQuestionAdvances ==
    [][\A t \in HostTasks :
          handle_next_question(t) =>
              IF current_question_index + 1 < total_questions
              THEN /\ current_question_index' = current_question_index + 1
                   /\ Len(sent'[t]) = 1
                   /\ sent'[t][1].kind = "broadcast"
                   /\ sent'[t][1].type = "question"
                   /\ sent'[t][1].payload.index = current_question_index + 1
              ELSE /\ status' = "completed"
                   /\ \E k \in 1..Len(sent'[t]) :
                         sent'[t][k].kind = "broadcast" /\ sent'[t][k].type = "quiz_ended"]_vars

C15_CursorInRange ==
    /\ \A u \in Users :
          cursor[u] # None => (0 <= cursor[u] /\ cursor[u] <= total_questions)
    /\ \A k \in 1..Len(participants) : \A i \in 1..Len(participants[k].answers) :
          /\ 0 <= participants[k].answers[i].question_index
          /\ participants[k].answers[i].question_index <= total_questions

\* C15 witness: both channels of alice were sent question 1 for their
\* request_next_question, which happens only when the two requests read the
\* cursor before either wrote it.
C15_Witness ==
    /\ pc["a1"] = "idle" /\ pc["a2"] = "idle"
    /\ sent["a1"] # << >> /\ sent["a2"] # << >>
    /\ sent["a1"][1].type = "question" /\ sent["a1"][1].payload.index = 1
    /\ sent["a2"][1].type = "question" /\ sent["a2"][1].payload.index = 1
    /\ cursor["alice"] = 1

\* C16: a request_next_question that read cursor c writes c + 1 to the
\* requester's cursor and sends the requester question c + 1 when
\* c < T - 1; otherwise it sends quiz_completed and no question and writes no
\* cursor.  No other user's cursor changes.
C16_RequestNextQuestion ==
    [][\A t \in ParticipantTasks :
          /\ request_next_decide(t) =>
                 /\ \A u \in Users \ {TaskUser(t)} : cursor'[u] = cursor[u]
                 /\ IF loc[t].index < total_questions - 1
                    THEN /\ cursor'[TaskUser(t)] = loc[t].index + 1
                         /\ pc'[t] = "idle"
                         /\ Len(sent'[t]) = 1
                         /\ sent'[t][1].kind = "personal"
                         /\ sent'[t][1].type = "question"
                         /\ sent'[t][1].payload.index = loc[t].index + 1
                    ELSE /\ cursor' = cursor
                         /\ sent'[t] = << >>
                         /\ pc'[t] = "calculate_final_results"
          /\ ( \/ calculate_final_results_hmget(t)
               \/ calculate_final_results_hget(t) )
                 => cursor' = cursor /\ sent'[t] = << >>
          /\ request_next_completed(t) =>
                 /\ cursor' = cursor
                 /\ pc'[t] = "idle"
                 /\ Len(sent'[t]) = 1
                 /\ sent'[t][1].kind = "personal"
                 /\ sent'[t][1].type = "quiz_completed"]_vars

\* C16 witness: alice was sent quiz_completed for a request made at the last
\* question, her cursor having been moved there by an earlier request.
C16_Witness ==
    /\ pc["a1"] = "idle"
    /\ sent["a1"] # << >>
    /\ sent["a1"][1].type = "quiz_completed"
    /\ cursor["alice"] = total_questions - 1

OnlyHostErrors ==
    { "Only host can start the quiz", "Only host can control questions",
      "Only host can end the quiz" }

\* C18: start_quiz, next_question and end_quiz from a user who is not the
\* host are answered with one "Only host can ..." error, and an HTTP start or
\* end with another host_id with 403; the session hash and the cursors are
\* unchanged and the handler returns with nothing else sent.
C18_OnlyHost ==
    [][\A t \in Tasks :
          TaskUser(t) # host_id =>
              /\ ( \/ \E payload \in StartPayloads : handle_start_quiz(t, payload)
                   \/ handle_next_question(t)
                   \/ handle_end_quiz(t) )
                 => /\ UNCHANGED store
                    /\ pc'[t] = "idle"
                    /\ Len(sent'[t]) = 1
                    /\ sent'[t][1].kind = "personal"
                    /\ sent'[t][1].type = "error"
                    /\ sent'[t][1].payload \in OnlyHostErrors
              /\ (start_quiz_session(t) \/ end_quiz_session(t))
                 => /\ UNCHANGED store
                    /\ pc'[t] = "idle"
                    /\ Len(sent'[t]) = 1
                    /\ sent'[t][1].kind = "http"
                    /\ sent'[t][1].code = 403]_vars

\* C18 witness: a participant's next_question was refused after a
\* participant's HTTP end was refused, and the session is still waiting.
C18_Witness ==
    /\ sent["a1"] = << Personal("error", "Only host can control questions") >>
    /\ sent["b1"] = << Http("end", 403, "Only host can end") >>
    /\ status = "waiting"

\* The leaderboard broadcast by the handler of task t in the next state.
BoardSent(t) == sent'[t][Len(sent'[t])].payload

\* C19: the leaderboard computed from participants has one entry per
\* participant, carrying the participant's score and number of answers, in
\* descending order of score and, at equal score, ascending order of
\* answered_count, with position k on the k-th entry.
C19_LeaderboardOrder ==
    [][\A t \in Tasks :
          get_leaderboard(t) =>
              /\ Len(BoardSent(t)) = Len(participants)
              /\ \A u \in Ids(participants) :
                    Cardinality({ k \in 1..Len(BoardSent(t)) : BoardSent(t)[k].user_id = u }) = 1
              /\ \A k \in 1..Len(BoardSent(t)) :
                    /\ BoardSent(t)[k].position = k
                    /\ BoardSent(t)[k].user_id \in Ids(participants)
                    /\ BoardSent(t)[k].score = Get(participants, BoardSent(t)[k].user_id).score
                    /\ BoardSent(t)[k].answered_count =
                           Len(Get(participants, BoardSent(t)[k].user_id).answers)
              /\ \A k \in 1..(Len(BoardSent(t)) - 1) :
                    \/ BoardSent(t)[k].score > BoardSent(t)[k + 1].score
                    \/ /\ BoardSent(t)[k].score = BoardSent(t)[k + 1].score
                       /\ BoardSent(t)[k].answered_count <= BoardSent(t)[k + 1].answered_count]_vars

\* C19 witness: a leaderboard of three participants was broadcast in which
\* the first two have the same positive score, the first with fewer answers,
\* although the second joined before the first.
C19_Witness ==
    \E t \in Tasks :
        /\ pc[t] = "idle"
        /\ Len(sent[t]) = 2
        /\ sent[t][2].type = "leaderboard_update"
        /\ Len(sent[t][2].payload) = 3
        /\ Len(participants) = 3
        /\ sent[t][2].payload[1].score > 0
        /\ sent[t][2].payload[1].score = sent[t][2].payload[2].score
        /\ sent[t][2].payload[1].answered_count < sent[t][2].payload[2].answered_count
        /\ sent[t][2].payload[3].score < sent[t][2].payload[2].score
        /\ IndexOf(participants, sent[t][2].payload[2].user_id)
              < IndexOf(participants, sent[t][2].payload[1].user_id)

\* The ascending order of user ids.
UserRank(u) ==
    CASE u = "alice" -> 1 [] u = "bob" -> 2 [] u = "carol" -> 3 [] u = "host" -> 4

\* C20: neighbours of the leaderboard with the same score and the same
\* answered_count are in ascending order of user_id.
C20_TieBreakByUserId ==
    [][\A t \in Tasks :
          get_leaderboard(t) =>
              \A k \in 1..(Len(BoardSent(t)) - 1) :
                  ( /\ BoardSent(t)[k].score = BoardSent(t)[k + 1].score
                    /\ BoardSent(t)[k].answered_count = BoardSent(t)[k + 1].answered_count )
                  => UserRank(BoardSent(t)[k].user_id) < UserRank(BoardSent(t)[k + 1].user_id)]_vars

\* The cursor of user u: the stored key, or without one the largest
\* question_index among the user's stored answers, 0 without answers.
CursorOf(u) ==
    IF cursor[u] # None THEN cursor[u]
    ELSE IF u \in Ids(participants) /\ Get(participants, u).answers # << >>
    THEN MaxOf({ Get(participants, u).answers[k].question_index :
                    k \in 1..Len(Get(participants, u).answers) })
    ELSE 0

\* C23: the write of a join by a user who is in participants leaves the user
\* in participants with connected true and the stored score and answers,
\* and the session_state sent to that user carries the stored score and the
\* stored number of answers.
C23_RejoinPreservesState ==
    [][\A t \in Tasks :
          /\ ( add_participant_hset(t) /\ TaskUser(t) \in Ids(participants) )
             => /\ TaskUser(t) \in Ids(participants')
                /\ Get(participants', TaskUser(t)).connected
                /\ Get(participants', TaskUser(t)).score = Get(participants, TaskUser(t)).score
                /\ Get(participants', TaskUser(t)).answers = Get(participants, TaskUser(t)).answers
          /\ ( handle_join_after(t) /\ TaskUser(t) \in Ids(participants) )
             => \E k \in 1..Len(sent'[t]) :
                   /\ sent'[t][k].kind = "personal"
                   /\ sent'[t][k].type = "session_state"
                   /\ \E i \in 1..Len(sent'[t][k].payload.participants) :
                         LET p == sent'[t][k].payload.participants[i]
                         IN  /\ p.user_id = TaskUser(t)
                             /\ p.score = Get(participants, TaskUser(t)).score
                             /\ Len(p.answers) = Len(Get(participants, TaskUser(t)).answers)]_vars

\* C24: the question sent to a participant who rejoins an active session is
\* the question at the participant's own cursor.
C24_RejoinQuestionAtOwnCursor ==
    [][\A t \in Tasks :
          handle_join_question(t) =>
              /\ Len(sent'[t]) = 3
              /\ sent'[t][3].kind = "personal"
              /\ sent'[t][3].type = "question"
              /\ sent'[t][3].payload.index = CursorOf(TaskUser(t))]_vars

\* C28: a join replies session_state to the sender before it broadcasts
\* session_update, and a submit_answer replies answer_result before it
\* broadcasts leaderboard_update; the store was written before either.
C28_ReplyBeforeBroadcast ==
    [][\A t \in Tasks :
          /\ handle_join_after(t) =>
                 /\ Len(sent'[t]) = 2
                 /\ sent'[t][1].kind = "personal" /\ sent'[t][1].type = "session_state"
                 /\ sent'[t][2].kind = "broadcast" /\ sent'[t][2].type = "session_update"
          /\ get_leaderboard(t) =>
                 /\ Len(sent'[t]) = 2
                 /\ sent'[t][1].kind = "personal"
                 /\ sent'[t][2].kind = "broadcast" /\ sent'[t][2].type = "leaderboard_update"]_vars

\* C29: a submit_answer that stores nothing (invalid index, unknown question
\* type, unknown participant, duplicate answer) is answered with one message
\* of type error.
C29_FailuresAreErrors ==
    [][\A t \in Tasks :
          ( submit_answer_hmget(t) /\ pc'[t] # "submit_answer_hset" )
          => /\ Len(sent'[t]) = 1
             /\ sent'[t][1].kind = "personal"
             /\ sent'[t][1].type = "error"]_vars

\* C22: every entry of the final results sent in quiz_ended or
\* quiz_completed carries correct_answers and wrong_answers, and their sum
\* is the entry's answered_count.
C22_FinalResultsConsistent ==
    [][\A t \in Tasks :
          (end_quiz_results(t) \/ request_next_completed(t)) =>
              \A k \in 1..Len(sent'[t][1].payload) :
                  LET e == sent'[t][1].payload[k]
                  IN  /\ "correct_answers" \in DOMAIN e
                      /\ "wrong_answers" \in DOMAIN e
                      /\ e.correct_answers + e.wrong_answers = e.answered_count]_vars

\* C21: the leaderboard of a leaderboard_response is the projection that
\* get_leaderboard makes of the participants it was built from: one entry per
\* participant in the same order of users (score descending, then
\* answered_count ascending), each entry carrying its position.
C21_ResponseSameAsUpdate ==
    [][\A t \in Tasks :
          request_leaderboard_send(t) =>
              LET response == sent'[t][1].payload.leaderboard
                  update == leaderboard(loc[t].participants, current_question_index)
              IN  /\ Len(response) = Len(update)
                  /\ \A k \in 1..Len(response) :
                        /\ response[k].user_id = update[k].user_id
                        /\ response[k].score = update[k].score
                        /\ response[k].answered_count = update[k].answered_count
                        /\ "position" \in DOMAIN response[k]
                        /\ response[k].position = update[k].position]_vars

\* C21, the order alone: the users of a leaderboard_response are in the
\* order that get_leaderboard gives them.
C21_ResponseOrder ==
    [][\A t \in Tasks :
          request_leaderboard_send(t) =>
              LET response == sent'[t][1].payload.leaderboard
                  update == leaderboard(loc[t].participants, current_question_index)
              IN  /\ Len(response) = Len(update)
                  /\ \A k \in 1..Len(response) :
                        response[k].user_id = update[k].user_id]_vars

\* C25: after a channel connects, it is the only channel of its user in the
\* session's list, and a broadcast message reaches no user on two channels.
C25_SecondChannelDisplacesFirst ==
    [][/\ \A c \in Channels :
            connect(c) =>
                \A k \in 1..Len(active_connections') :
                    ChannelUser(active_connections'[k]) = ChannelUser(c)
                        => active_connections'[k] = c
       /\ \A t \in Tasks :
            broadcast_send_json(t) =>
                \A c, d \in Channels :
                    ( /\ c # d
                      /\ ChannelUser(c) = ChannelUser(d)
                      /\ InList(delivered'[c], loc[t].message) )
                    => ~InList(delivered'[d], loc[t].message)]_vars

\* C25, the delivery alone: a broadcast message reaches no user on two
\* channels.
C25_DeliveredOnce ==
    \A c, d \in Channels : \A m \in 1..(MaxOps + 1) :
        (c # d /\ ChannelUser(c) = ChannelUser(d) /\ InList(delivered[c], m))
            => ~InList(delivered[d], m)

\* C26: when a session broadcast ends, every channel that was in the list
\* when it began, is still in the list and is open has received the message.
C26_OthersStillReceive ==
    [][\A t \in Tasks :
          (broadcast_next(t) /\ pc'[t] = "idle") =>
              \A c \in loc[t].registered :
                  (InList(active_connections, c) /\ channel[c] = "open")
                      => InList(delivered[c], loc[t].message)]_vars

\* C27: a channel whose send raised, in a broadcast or in a personal send,
\* is no longer in the session's list after that send.
C27_FailedChannelRemoved ==
    [][\A t \in Tasks :
          ( /\ broadcast_send_json(t) \/ personal_send_json(t)
            /\ channel[loc[t].connection] # "open" )
              => ~InList(active_connections', loc[t].connection)]_vars

\* C30: a create call returns a code that no session in the store has, and
\* leaves every session already in the store as it is; the session it
\* creates has status waiting, current_question_index 0 and no participants.
C30_CreateNeverOverwrites ==
    [][\A t \in Tasks :
          create_session_hset(t) =>
              /\ sessions[loc[t].session_code] = << >>
              /\ \A code \in Codes : sessions[code] # << >> => sessions'[code] = sessions[code]
              /\ sessions'[loc[t].session_code][1].status = "waiting"
              /\ sessions'[loc[t].session_code][1].current_question_index = 0
              /\ sessions'[loc[t].session_code][1].participants = << >>]_vars

\* C30, the route: create-session answers 200 with the code of the session
\* it created.
C30_CreateRouteSucceeds ==
    [][\A t \in Tasks : create_live_session(t) => sent'[t][1].code = 200]_vars

\* C36: when a session broadcast ends, every open channel that was in the
\* session's list when the broadcast began and is still in it has received
\* the message exactly once, whatever connected or disconnected meanwhile.
C36_ExactlyOnceWhileRegistered ==
    [][\A t \in Tasks :
          (broadcast_next(t) /\ pc'[t] = "idle") =>
              \A c \in loc[t].registered :
                  (InList(active_connections, c) /\ channel[c] = "open")
                      => Cardinality({ k \in 1..Len(delivered[c]) :
                                          delivered[c][k] = loc[t].message }) = 1]_vars

\* C38: an answer is stored only while the session's status is active.
C38_AnswersOnlyWhileActive ==
    [][\A t \in Tasks : submit_answer_hset(t) => status = "active"]_vars

\* C39: when a channel is disconnected while another channel of the same
\* user is in the session's list, the user is still in user_connections and
\* in connection_roles afterwards.
C39_NewerChannelStaysRegistered ==
    [][\A c \in Channels :
          disconnect(c) =>
              \A d \in Channels :
                  ( /\ d # c
                    /\ ChannelUser(d) = ChannelUser(c)
                    /\ InList(active_connections', d) )
                  => /\ user_connections'[ChannelUser(c)] = d
                     /\ ChannelUser(c) \in connection_roles']_vars

\* C40: when the host's start_quiz is answered with an error, the status is
\* still waiting and no quiz_started was broadcast; when the status is active
\* after a channel start_quiz, quiz_started and question 0 were broadcast.
\* Stated at the step that ends the first start_quiz of a waiting session.
C40_ErrorMeansNotStarted ==
    [][\A t \in Tasks :
          (start_quiz_timer(t) /\ ~question_start_time) =>
              IF \E k \in 1..Len(sent'[t]) : sent'[t][k].type = "error"
              THEN /\ status' = "waiting"
                   /\ \A k \in 1..Len(sent'[t]) : sent'[t][k].type # "quiz_started"
              ELSE status' = "active" =>
                       /\ \E k \in 1..Len(sent'[t]) : sent'[t][k].type = "quiz_started"
                       /\ \E k \in 1..Len(sent'[t]) :
                              /\ sent'[t][k].type = "question"
                              /\ sent'[t][k].payload.index = 0]_vars

\* C33: when the quiz store has no quiz for a request_next_question or a
\* start_quiz, the requester receives one error message and nothing else, no
\* broadcast is made, and no cursor or participant record is changed.
C33_NoQuizIsErrorForRequesterOnly ==
    [][\A t \in Tasks :
          quiz = << >> =>
              /\ (request_next_completed(t) \/ start_quiz_timer(t)
                      \/ (request_next_decide(t) /\ pc'[t] = "idle"))
                   => /\ Len(sent'[t]) = 1
                      /\ sent'[t][1].kind = "personal"
                      /\ sent'[t][1].type = "error"
              /\ (start_quiz_set_cursor(t) \/ request_next_decide(t))
                   => /\ cursor' = cursor
                      /\ participants' = participants]_vars

\* The question at the index has a type submit_answer does not know.
C34_UnknownType(index) ==
    /\ index < Len(quiz_questions)
    /\ quiz_questions[index + 1].type
           \notin {"singleMcq", "trueFalse", "multiMcq", "dragAndDrop"}

\* C34: a submit_answer for a question of an unknown type, or by a user who
\* is not in participants (the host included), is answered with an error and
\* goes on without the hset: no answer is stored and no score changes.
C34_RejectedSubmitStoresNothing ==
    [][\A t \in Tasks :
          ( /\ submit_answer_hmget(t)
            /\ \/ C34_UnknownType(loc[t].index)
               \/ TaskUser(t) \notin Ids(participants) )
          => /\ pc'[t] = "get_leaderboard"
             /\ Len(sent'[t]) = 1
             /\ sent'[t][1].type = "answer_result"
             /\ "error" \in DOMAIN sent'[t][1].payload
             /\ participants' = participants]_vars

\* A participant's submit for a question of an unknown type and the host's
\* submit have both been answered with an error.
C34_Witness ==
    /\ C34_UnknownType(0)
    /\ \E t \in ParticipantTasks :
          /\ TaskUser(t) \in Ids(participants)
          /\ pc[t] = "get_leaderboard"
          /\ sent[t] = << Personal("answer_result", [error |-> "Unknown question type"]) >>
    /\ \E t \in HostTasks :
          /\ pc[t] = "get_leaderboard"
          /\ Len(sent[t]) = 1
          /\ "error" \in DOMAIN sent[t][1].payload

\* The frames a loop has read are the oldest ones of its connection, in the
\* order of their arrival.
C35_InReceiveOrder ==
    \A t \in Tasks :
        LET read == frames[t].handled
            waiting == frames[t].inbox
        IN  /\ \A k \in 1..(Len(read) - 1) : read[k].seq < read[k + 1].seq
            /\ \A k \in 1..Len(read) : \A j \in 1..Len(waiting) : read[k].seq < waiting[j].seq

\* C35: a frame of unknown type or one that is not JSON changes neither the
\* store nor the registry, sends nothing to any client and leaves the loop
\* ready for its next frame; each loop reads its frames in receive order.
C35_IgnoredFrameChangesNothing ==
    [][/\ \A t \in Tasks :
            ( /\ pc[t] = "idle"
              /\ frames[t].inbox # << >>
              /\ frames'[t].handled # frames[t].handled
              /\ LET message == json_loads(Head(frames[t].inbox).text)
                 IN  message = << >> \/ message[1].type \notin MessageTypes )
            => /\ UNCHANGED << store, manager, sessions >>
               /\ \A k \in 1..Len(sent'[t]) : sent'[t][k].kind = "log"
               /\ \A u \in Tasks \ {t} : sent'[u] = sent[u]
               /\ pc'[t] = "idle"
       /\ C35_InReceiveOrder']_vars

\* After a frame that is not JSON and a ping, the same connection's
\* request_next_question was answered with the next question.
C35_Witness ==
    \E t \in ParticipantTasks :
        /\ Len(frames[t].handled) = 3
        /\ json_loads(frames[t].handled[1].text) = << >>
        /\ frames[t].handled[2].text = "ping"
        /\ frames[t].handled[3].text = "request_next_question"
        /\ pc[t] = "idle"
        /\ sent[t] = << Personal("question", [index |-> 1, total |-> 2]) >>
        /\ cursor[TaskUser(t)] = 1

\* C31: once the TTL of a session has run out, no participant cursor key of
\* that session can still be read.
C31_CursorKeysExpireWithSession ==
    [][expire(StoredCode) => \A u \in Users : cursor'[u] = None]_vars

\* C37: end_session, advance_question, start_question_timer and
\* add_participant on a code that is not in the store leave the store without
\* an entry for it: get_session still finds nothing.
C37_MissingCodeStaysMissing ==
    [][\A code \in Codes :
          ( /\ get_session(code) = << >>
            /\ \/ end_session_hset(code)
               \/ advance_question_hincrby(code)
               \/ start_question_timer(code)
               \/ \E t \in Tasks : session_add_participant_hget(t, code) )
          => sessions'[code] = << >>]_vars

\* C32: a session never has more than MAX_PARTICIPANTS_PER_SESSION
\* participants; the join of a new user to a full session is refused and
\* leaves participants as they were.
C32_ParticipantsCapped ==
    Len(participants) <= MAX_PARTICIPANTS_PER_SESSION

====
